---- MODULE Spec2Model ----
(***************************************************************************)
(* Job orchestration core of md_webbrowser (app/jobs.py): the JobManager   *)
(* registry, its per-job runner task, the snapshot / event-log fan-out and *)
(* the webhook dispatcher.                                                 *)
(*                                                                         *)
(* All registry code runs on one asyncio loop; code between two awaits is  *)
(* atomic.  _run_job has exactly one await (the pipeline runner), so the   *)
(* runner task is two steps: RunJobStart (task start up to the await) and  *)
(* RunJobResume (the runner's result up to the end of the task).  Every    *)
(* public operation of the manager is synchronous and is one step.         *)
(***************************************************************************)
EXTENDS Integers, Sequences, FiniteSets, TLC

\* ------------------------------------------------------------------ bounds
MaxQueues == 2      \* queues created by subscribe / subscribe_events (Spec)
MaxHookQueues == 1  \* the same, where webhooks are registered too (SpecHooks)
MaxHooks == 1       \* register_webhook calls
MaxTiles == 1       \* largest manifest.tiles_total a runner reports
MaxSenderHooks == 1 \* register_webhook calls where sender tasks run (SpecSenders)
MaxSenderRuns == 2  \* sender tasks the loop gets to run
MaxDeleteHooks == 2 \* register_webhook calls where webhooks are deleted (SpecDelete)
MaxDeletes == 2     \* delete_webhook calls that return
MaxWrites == 1      \* writes a caller makes into one returned snapshot
MaxCopyQueues == 1  \* queues subscribed where callers write into snapshots (SpecCopies)
MaxNow == 1         \* clock readings 0..MaxNow
MaxMinSequence == 2 \* largest min_sequence passed to get_events
MaxCallQueues == 1  \* queues created where callers pass any argument (SpecCalls)
MaxCallHooks == 1   \* register_webhook calls that register, in SpecCalls
MaxLateHooks == 1   \* register_webhook calls where deletes precede broadcasts (SpecLate)
MaxLateDeletes == 1 \* delete_webhook calls that return, in SpecLate
MaxPairQueues == 1  \* queues created where two jobs run side by side (SpecPair)
MaxPairHooks == 1   \* register_webhook calls in SpecPair
MaxStreams == 1     \* requests to /jobs/{job_id}/stream and /jobs/{job_id}/events
MaxRequests == 3    \* most OCR requests passed to submit_tiles
MaxConcurrency == 2 \* largest ocr.max_concurrency / ocr.min_concurrency setting

\* _EVENT_HISTORY_LIMIT, with the value the clamp test patches in
EVENT_HISTORY_LIMIT == 3

\* uuid4().hex: the ids create_job draws, in the order it draws them
JobOrder == <<"j1">>
\* the ids a caller may pass: the created ones and one that never is
JobIds == {JobOrder[i] : i \in 1..Len(JobOrder)} \cup {"unknown"}
\* two jobs created one after the other
PairOrder == <<"j1", "j2">>
PairIds == {PairOrder[i] : i \in 1..Len(PairOrder)}
Urls == {"https://example.com"}
HookUrls == {"https://example.com/hook"}

None == "<None>"
\* a key that is not set: it refers to no object
Absent == 0

\* ------------------------------------------------------------- dict helpers
Get(d, k, default) == IF k \in DOMAIN d THEN d[k] ELSE default
Put(d, k, v) == [x \in (DOMAIN d) \cup {k} |-> IF x = k THEN v ELSE d[x]]
Pop(d, k) == [x \in (DOMAIN d) \ {k} |-> d[x]]
EmptyDict == [x \in {} |-> 0]

InSeq(x, s) == \E i \in 1..Len(s) : s[i] = x
\* list.remove(x): drops the first occurrence
RemoveFirst(s, x) ==
    IF ~InSeq(x, s) THEN s
    ELSE LET i == CHOOSE k \in 1..Len(s) : s[k] = x /\ \A m \in 1..(k - 1) : s[m] # x
         IN  SubSeq(s, 1, i - 1) \o SubSeq(s, i + 1, Len(s))

\* ------------------------------------------------------------------ JobState
StateValues ==
    {"BROWSER_STARTING", "NAVIGATING", "SCROLLING", "CAPTURING", "TILING",
     "OCR_SUBMITTING", "OCR_WAITING", "STITCHING", "DONE", "FAILED"}

\* the enum members; JobState.DONE is the member, EnumValue(JobState.DONE) is "DONE"
JobState ==
    [BROWSER_STARTING |-> "JobState.BROWSER_STARTING",
     NAVIGATING |-> "JobState.NAVIGATING",
     SCROLLING |-> "JobState.SCROLLING",
     CAPTURING |-> "JobState.CAPTURING",
     TILING |-> "JobState.TILING",
     OCR_SUBMITTING |-> "JobState.OCR_SUBMITTING",
     OCR_WAITING |-> "JobState.OCR_WAITING",
     STITCHING |-> "JobState.STITCHING",
     DONE |-> "JobState.DONE",
     FAILED |-> "JobState.FAILED"]

JobStateMembers == {JobState[v] : v \in StateValues}
EnumValue(member) == CHOOSE v \in StateValues : JobState[v] = member

\* ---------------------------------------------------------------- exceptions
\* an exception object: its identity and the message str() gives
Exc(id, msg) == [id |-> id, msg |-> msg]
NoExc == Exc("none", "")
Str(exc) == exc.msg

\* what the injected pipeline runner can raise (the message may be empty)
RunnerErrors == {Exc("E_ocr", "ocr failed"), Exc("E_blank", "")}

\* ------------------------------------------------------------------- state
VARIABLES
    snapshots,          \* JobManager._snapshots: job id -> snapshot dict
    tasks,              \* JobManager._tasks: job id -> task handle
    subscribers,        \* JobManager._subscribers: job id -> list of queues
    event_logs,         \* JobManager._event_logs: job id -> list of entries
    event_sequences,    \* JobManager._event_sequences: job id -> next sequence
    event_subscribers,  \* JobManager._event_subscribers: job id -> list of queues
    webhooks,           \* JobManager._webhooks: job id -> list of entry dicts
    pending_webhooks,   \* JobManager._pending_webhooks: job id -> list of entry dicts
    store,              \* the durable Store
    queues,             \* the asyncio.Queue objects: queue -> items put on it
    hookobjs,           \* the webhook entry dicts (shared by _webhooks and _pending_webhooks)
    task,               \* the asyncio.Task objects: job id -> [pc, exc, runner]
    sent,               \* webhook sender tasks created, in creation order
    now,                \* the clock datetime.now() reads
    heap,               \* the nested objects of snapshots: progress, manifest, artifacts
    ret,                \* what the last call of a public operation returned
    hmeta,              \* history: entry dict -> how and when it was registered
    appended,           \* history: job id -> every entry ever appended to its log
    qmeta,              \* history: queue -> how and when it was subscribed
    ocr,                \* the submit_tiles call: its semaphore, tasks and responses
    streams             \* the HTTP stream responses: queue -> handler, generator, client

vars == <<snapshots, tasks, subscribers, event_logs, event_sequences,
          event_subscribers, webhooks, pending_webhooks, store, queues,
          hookobjs, task, sent, now, heap, ret, hmeta,
          appended, qmeta, ocr, streams>>

\* the whole state as one value, so that a handler is a function on it
World ==
    [snapshots |-> snapshots, tasks |-> tasks, subscribers |-> subscribers,
     event_logs |-> event_logs, event_sequences |-> event_sequences,
     event_subscribers |-> event_subscribers, webhooks |-> webhooks,
     pending_webhooks |-> pending_webhooks, store |-> store, queues |-> queues,
     hookobjs |-> hookobjs, task |-> task, sent |-> sent, now |-> now,
     heap |-> heap, ret |-> ret, hmeta |-> hmeta,
     appended |-> appended, qmeta |-> qmeta, ocr |-> ocr, streams |-> streams]

Commit(W) ==
    /\ snapshots' = W.snapshots
    /\ tasks' = W.tasks
    /\ subscribers' = W.subscribers
    /\ event_logs' = W.event_logs
    /\ event_sequences' = W.event_sequences
    /\ event_subscribers' = W.event_subscribers
    /\ webhooks' = W.webhooks
    /\ pending_webhooks' = W.pending_webhooks
    /\ store' = W.store
    /\ queues' = W.queues
    /\ hookobjs' = W.hookobjs
    /\ task' = W.task
    /\ sent' = W.sent
    /\ now' = W.now
    /\ heap' = W.heap
    /\ ret' = W.ret
    /\ hmeta' = W.hmeta
    /\ appended' = W.appended
    /\ qmeta' = W.qmeta
    /\ ocr' = W.ocr
    /\ streams' = W.streams

\* ------------------------------------------------------------------- Store
\* The durable Store, by the contract the core consumes: a run record per
\* allocated job, and webhook records with durable ids.
EmptyStore == [runs |-> EmptyDict, webhooks |-> <<>>, next_id |-> 1]

StoreAllocateRun(st, job_id) ==
    [st EXCEPT !.runs = Put(@, job_id, [status |-> None, manifest_path |-> None])]

StoreUpdateStatus(st, job_id, status) ==
    [st EXCEPT !.runs[job_id].status = EnumValue(status)]

StoreWriteManifest(st, job_id) ==
    [st EXCEPT !.runs[job_id].manifest_path = "manifest.json"]

StoreHasRun(st, job_id) == job_id \in DOMAIN st.runs

\* fetch_run: the record, or nothing
StoreFetchRun(st, job_id) ==
    IF job_id \in DOMAIN st.runs THEN <<st.runs[job_id]>> ELSE <<>>

StoreRegisterWebhook(st, job_id, url, events) ==
    [st EXCEPT !.webhooks = Append(@, [id |-> st.next_id, job_id |-> job_id,
                                       url |-> url, events |-> events]),
               !.next_id = @ + 1]

\* delete_webhooks: by durable id when one is given, else by exact url; the
\* records of the job that match are deleted and counted
StoreWebhookMatches(record, job_id, webhook_id, url) ==
    /\ record.job_id = job_id
    /\ IF webhook_id # <<>> THEN record.id = webhook_id[1]
       ELSE url # <<>> /\ record.url = url[1]

StoreDeleteWebhooks(st, job_id, webhook_id, url) ==
    LET Kept(record) == ~StoreWebhookMatches(record, job_id, webhook_id, url)
        remaining == SelectSeq(st.webhooks, Kept)
    IN  [st |-> [st EXCEPT !.webhooks = remaining],
         deleted |-> Len(st.webhooks) - Len(remaining)]

\* ---------------------------------------------------------------- snapshots
\* A snapshot is a dict whose progress, manifest and artifacts values are
\* objects of their own (a dict, a dict, a list): the snapshot holds references
\* into the heap, and dict.copy() copies the references, not the objects.
Alloc(W, obj) == [W EXCEPT !.heap = Append(@, obj)]
NewRef(W) == Len(W.heap) + 1

\* the snapshot built on a heap where `progress` and `manifest` were allocated
build_initial_snapshot(url, job_id, progress, manifest) ==
    [id |-> job_id,
     url |-> url,
     state |-> JobState.BROWSER_STARTING,
     progress |-> progress,
     manifest_path |-> "",
     manifest |-> manifest,
     artifacts |-> Absent,
     error |-> None]

SnapshotPayload(W, job_id) ==
    LET payload == W.snapshots[job_id]
    IN  IF payload.state \in JobStateMembers
        THEN [payload EXCEPT !.state = EnumValue(payload.state)]
        ELSE payload

\* ----------------------------------------------------------------- timestamps
Isoformat(t) == <<"iso", t>>
ParseTimestamp(raw) == raw[2]

\* ------------------------------------------------------------------- queues
RECURSIVE PutEach(_, _, _)
PutEach(qs, subs, item) ==
    IF subs = <<>> THEN qs
    ELSE PutEach([qs EXCEPT ![Head(subs)] = Append(@, item)], Tail(subs), item)

\* ---------------------------------------------------------------- event log
\* mutant: the cap drops the newest entries instead of the oldest
RecordEventDropNewest(log) ==
    IF Len(log) > EVENT_HISTORY_LIMIT
    THEN SubSeq(log, 1, EVENT_HISTORY_LIMIT)
    ELSE log

RecordEventDropOldest(log) ==
    IF Len(log) > EVENT_HISTORY_LIMIT
    THEN SubSeq(log, Len(log) - EVENT_HISTORY_LIMIT + 1, Len(log))
    ELSE log

\* mutant: the sequence is taken from the length of the retained log
NextSequenceFromLogLength(W, job_id) == Len(Get(W.event_logs, job_id, <<>>))

NextSequence(W, job_id) == Get(W.event_sequences, job_id, 0)

RecordEvent(W, job_id, payload) ==
    LET entry == [timestamp |-> Isoformat(W.now),
                  sequence |-> NextSequence(W, job_id),
                  event |-> "snapshot",
                  snapshot |-> payload]
        log == Append(Get(W.event_logs, job_id, <<>>), entry)
    IN  [W EXCEPT
            !.event_sequences = Put(@, job_id, entry.sequence + 1),
            !.event_logs = Put(@, job_id, RecordEventDropOldest(log)),
            !.queues = PutEach(@, Get(W.event_subscribers, job_id, <<>>), entry),
            !.appended = Put(@, job_id, Append(Get(@, job_id, <<>>), entry))]

\* ------------------------------------------------------------------ webhooks
\* asyncio.create_task(sender(url, payload)): the task is created, not awaited.
\* status: "scheduled" until the loop has run the sender.  History: the entry
\* dict the task was created for and the sequence of the broadcast's log entry.
SenderTask(W, job_id, h, url, payload) ==
    [url |-> url, payload |-> payload, status |-> "scheduled",
     hook |-> h, broadcast |-> Get(W.event_sequences, job_id, 0) - 1]

RECURSIVE TriggerEach(_, _, _, _)
TriggerEach(W, hooks, job_id, payload) ==
    IF hooks = <<>> THEN W
    ELSE LET hook == W.hookobjs[Head(hooks)]
             W1 == IF InSeq(payload.state, hook.events)
                   THEN [W EXCEPT !.sent = Append(@,
                            SenderTask(W, job_id, Head(hooks),
                                       hook.url,
                                       [job_id |-> job_id,
                                        state |-> payload.state,
                                        timestamp |-> Isoformat(W.now),
                                        snapshot |-> payload]))]
                   ELSE W
         IN  TriggerEach(W1, Tail(hooks), job_id, payload)

\* a payload's state is the enum's value, a str: the isinstance test passes
\* for every state the registry holds
MaybeTriggerWebhooks(W, job_id, payload) ==
    LET hooks == Get(W.webhooks, job_id, <<>>)
    IN  IF hooks = <<>> THEN W
        ELSE IF payload.state \notin StateValues THEN W
        ELSE TriggerEach(W, hooks, job_id, payload)

\* The loop runs a sender task: the sender returns, or raises.  The task was
\* created and never awaited, so what it raises stays in the task object.
SenderOutcomes == {"done", "raised"}

\* mutant: what the sender raises fails the job
SenderRaiseFailsJob(W, i, outcome) ==
    LET W1 == [W EXCEPT !.sent[i].status = outcome]
        job_id == W.sent[i].payload.job_id
    IN  IF outcome = "raised"
        THEN [W1 EXCEPT !.snapshots[job_id].state = JobState.FAILED]
        ELSE W1

SenderRunEffect(W, i, outcome) == [W EXCEPT !.sent[i].status = outcome]

\* ----------------------------------------------------------------- broadcast
\* mutant: the payload is put on the snapshot queues of every job
BroadcastToEveryJob(W, job_id) ==
    LET payload == SnapshotPayload(W, job_id)
        W1 == RecordEvent(W, job_id, payload)
        everyone == SelectSeq([q \in 1..Len(W1.queues) |-> q],
                              LAMBDA q : \E j \in DOMAIN W1.subscribers :
                                            InSeq(q, W1.subscribers[j]))
        W2 == [W1 EXCEPT !.queues = PutEach(@, everyone, payload)]
    IN  MaybeTriggerWebhooks(W2, job_id, payload)

Broadcast(W, job_id) ==
    LET payload == SnapshotPayload(W, job_id)
        W1 == RecordEvent(W, job_id, payload)
        W2 == [W1 EXCEPT !.queues = PutEach(@, Get(W1.subscribers, job_id, <<>>), payload)]
    IN  MaybeTriggerWebhooks(W2, job_id, payload)

SetState(W, job_id, state) ==
    IF job_id \notin DOMAIN W.snapshots THEN W
    ELSE Broadcast([W EXCEPT !.snapshots[job_id].state = state], job_id)

\* mutant: the error is written without a broadcast
SetErrorSilently(W, job_id, message) ==
    IF job_id \notin DOMAIN W.snapshots THEN W
    ELSE [W EXCEPT !.snapshots[job_id].error = message]

SetError(W, job_id, message) ==
    IF job_id \notin DOMAIN W.snapshots THEN W
    ELSE Broadcast([W EXCEPT !.snapshots[job_id].error = message], job_id)

\* ------------------------------------------------------------------ the Task
\* pc: where the task is; exc: what awaiting it raises (NoExc: it returned);
\* runner: what the awaited pipeline runner raised (NoExc: nothing so far)
TaskEnd(W, job_id, exc) ==
    [W EXCEPT !.task[job_id].pc = "done", !.task[job_id].exc = exc]

\* ---------------------------------------------------------------- create_job
\* what a call returned: `value` is the returned dict, `writes` counts what
\* the caller has written into it since
Returned(op, job_id, value) ==
    [op |-> op, job_id |-> job_id, raised |-> "", value |-> value, writes |-> 0]
Raised(op, job_id, error) == [op |-> op, job_id |-> job_id, raised |-> error]

CreateJobEffect(W, job_id, url) ==
    LET Wp == Alloc(W, [done |-> 0, total |-> 0])
        Wm == Alloc(Wp, [type |-> "ManifestMetadata"])
        snapshot == build_initial_snapshot(url, job_id, NewRef(W), NewRef(Wp))
        W1 == [Wm EXCEPT !.snapshots = Put(@, job_id, snapshot),
                         !.event_logs = Put(@, job_id, <<>>),
                         !.event_sequences = Put(@, job_id, 0)]
        W2 == Broadcast(W1, job_id)
    IN  [W2 EXCEPT !.task = Put(@, job_id, [pc |-> "scheduled", exc |-> NoExc,
                                            runner |-> NoExc]),
                   !.tasks = Put(@, job_id, job_id),
                   !.ret = Returned("create_job", job_id, snapshot)]

\* --------------------------------------------------------------- get_snapshot
GetSnapshotEffect(W, job_id) ==
    IF job_id \notin DOMAIN W.snapshots
    THEN [W EXCEPT !.ret = Raised("get_snapshot", job_id, "KeyError")]
    ELSE [W EXCEPT !.ret = Returned("get_snapshot", job_id, W.snapshots[job_id])]

\* the caller writes into the dict it was returned: a key of the dict itself,
\* or a key of one of the objects the dict refers to
Tampered == -1
TamperedText == "<tampered>"
NestedKeys == {"progress", "manifest", "artifacts"}

Tamper(obj) ==
    IF "done" \in DOMAIN obj THEN [obj EXCEPT !.done = Tampered]
    ELSE IF "type" \in DOMAIN obj THEN [obj EXCEPT !.type = TamperedText]
    ELSE [obj EXCEPT !.items = TamperedText]

WriteTopLevelEffect(W) ==
    [W EXCEPT !.ret.value.url = TamperedText, !.ret.writes = @ + 1]

WriteNestedEffect(W, key) ==
    [W EXCEPT !.heap[W.ret.value[key]] = Tamper(@), !.ret.writes = @ + 1]

\* ------------------------------------------------- _persist_pending_webhooks
\* failAt: which store.register_webhook call (counted along `pending`) raises an
\* error that is not KeyError; 0 when none does.  The result is the state and
\* the exception that escapes (NoExc when none).
\* mutant: the flush writes nothing to the store
PersistNothing(W, pending, job_id, failAt) == [W |-> W, exc |-> NoExc]

RECURSIVE PersistPendingWebhooks(_, _, _, _)
PersistPendingWebhooks(W, pending, job_id, failAt) ==
    IF pending = <<>> THEN [W |-> W, exc |-> NoExc]
    ELSE IF ~StoreHasRun(W.store, job_id)
         THEN PersistPendingWebhooks(W, Tail(pending), job_id, failAt - 1)
    ELSE IF failAt = 1
         THEN [W |-> W, exc |-> Exc("E_register_webhook", "store error")]
    ELSE LET h == Head(pending)
             W1 == [W EXCEPT
                      !.store = StoreRegisterWebhook(@, job_id, W.hookobjs[h].url,
                                                     W.hookobjs[h].events),
                      !.hookobjs[h].id = <<W.store.next_id>>]
         IN  PersistPendingWebhooks(W1, Tail(pending), job_id, failAt - 1)

\* ------------------------------------------------------------------ _run_job
\* The store calls of the runner that can raise, and the outcome chosen for each.
StartFailures == {"none", "allocate_run", "update_status", "register_webhook"}
StoreOutcomes == {"ok", "raise"}
ResumePlans == [fetch_run : StoreOutcomes, update_done : StoreOutcomes,
                update_failed : StoreOutcomes]

\* what the awaited pipeline runner gives back
RunnerResults ==
    {[ok |-> TRUE, tiles_total |-> n, exc |-> NoExc] : n \in 0..MaxTiles}
    \cup {[ok |-> FALSE, tiles_total |-> 0, exc |-> e] : e \in RunnerErrors}

\* lines 176-185: from the start of the task to the await of the runner
RunJobStartEffect(W, job_id, fail, failAt) ==
    IF fail = "allocate_run"
    THEN TaskEnd(W, job_id, Exc("E_allocate_run", "store error"))
    ELSE
    LET W1 == [W EXCEPT !.store = StoreAllocateRun(@, job_id)]
    IN  IF fail = "update_status"
        THEN TaskEnd(W1, job_id, Exc("E_update_status", "store error"))
        ELSE
        LET W2 == [W1 EXCEPT !.store = StoreUpdateStatus(@, job_id, JobState.CAPTURING)]
            pending == Get(W2.pending_webhooks, job_id, <<>>)
            W3 == [W2 EXCEPT !.pending_webhooks = Pop(@, job_id)]
            flushed == PersistPendingWebhooks(W3, pending, job_id,
                                              IF fail = "register_webhook" THEN failAt ELSE 0)
        IN  IF flushed.exc # NoExc
            THEN TaskEnd(flushed.W, job_id, flushed.exc)
            ELSE LET W4 == SetState(flushed.W, job_id, JobState.CAPTURING)
                 IN  [W4 EXCEPT !.task[job_id].pc = "awaiting"]

\* mutant: the progress counters are written into the dict the snapshot has
RunJobTryInPlace(W, job_id, res, plan) ==
    IF ~res.ok THEN [W |-> W, exc |-> res.exc]
    ELSE
    LET W0 == [W EXCEPT !.store = StoreWriteManifest(@, job_id)]
    IN  IF plan.fetch_run = "raise"
        THEN [W |-> W0, exc |-> Exc("E_fetch_run", "store error")]
        ELSE
        LET run_record == StoreFetchRun(W0.store, job_id)
            manifest_path == IF run_record # <<>> THEN run_record[1].manifest_path ELSE ""
            Wm == Alloc(W0, [type |-> "CaptureManifest", tiles_total |-> res.tiles_total])
            Wa == Alloc(Wm, [items |-> "tile_artifacts"])
            W1 == [Wa EXCEPT
                     !.snapshots[job_id].manifest_path = manifest_path,
                     !.heap[W.snapshots[job_id].progress] =
                         [done |-> res.tiles_total, total |-> res.tiles_total],
                     !.snapshots[job_id].manifest = NewRef(W0),
                     !.snapshots[job_id].artifacts = NewRef(Wm)]
            W2 == Broadcast(W1, job_id)
            W3 == SetState(W2, job_id, JobState.DONE)
        IN  IF plan.update_done = "raise"
            THEN [W |-> W3, exc |-> Exc("E_update_done", "store error")]
            ELSE [W |-> [W3 EXCEPT !.store = StoreUpdateStatus(@, job_id, JobState.DONE)],
                  exc |-> NoExc]

\* lines 186-198: the try body after the runner has returned or raised
RunJobTry(W, job_id, res, plan) ==
    IF ~res.ok THEN [W |-> W, exc |-> res.exc]
    ELSE
    LET W0 == [W EXCEPT !.store = StoreWriteManifest(@, job_id)]
    IN  IF plan.fetch_run = "raise"
        THEN [W |-> W0, exc |-> Exc("E_fetch_run", "store error")]
        ELSE
        LET run_record == StoreFetchRun(W0.store, job_id)
            manifest_path == IF run_record # <<>> THEN run_record[1].manifest_path ELSE ""
            Wp == Alloc(W0, [done |-> res.tiles_total, total |-> res.tiles_total])
            Wm == Alloc(Wp, [type |-> "CaptureManifest", tiles_total |-> res.tiles_total])
            Wa == Alloc(Wm, [items |-> "tile_artifacts"])
            W1 == [Wa EXCEPT
                     !.snapshots[job_id].manifest_path = manifest_path,
                     !.snapshots[job_id].progress = NewRef(W0),
                     !.snapshots[job_id].manifest = NewRef(Wp),
                     !.snapshots[job_id].artifacts = NewRef(Wm)]
            W2 == Broadcast(W1, job_id)
            W3 == SetState(W2, job_id, JobState.DONE)
        IN  IF plan.update_done = "raise"
            THEN [W |-> W3, exc |-> Exc("E_update_done", "store error")]
            ELSE [W |-> [W3 EXCEPT !.store = StoreUpdateStatus(@, job_id, JobState.DONE)],
                  exc |-> NoExc]

\* mutant: the error is recorded before the state is set to FAILED
RunJobExceptErrorFirst(W, job_id, exc, plan) ==
    LET W1 == SetError(W, job_id, Str(exc))
        W2 == SetState(W1, job_id, JobState.FAILED)
    IN  IF plan.update_failed = "raise"
        THEN [W |-> W2, exc |-> Exc("E_update_failed", "store error")]
        ELSE [W |-> [W2 EXCEPT !.store = StoreUpdateStatus(@, job_id, JobState.FAILED)],
              exc |-> exc]

\* lines 199-203: the except block
RunJobExcept(W, job_id, exc, plan) ==
    LET W1 == SetState(W, job_id, JobState.FAILED)
        W2 == SetError(W1, job_id, Str(exc))
    IN  IF plan.update_failed = "raise"
        THEN [W |-> W2, exc |-> Exc("E_update_failed", "store error")]
        ELSE [W |-> [W2 EXCEPT !.store = StoreUpdateStatus(@, job_id, JobState.FAILED)],
              exc |-> exc]

\* lines 204-205: the finally block
RunJobFinally(W, job_id) == [W EXCEPT !.tasks = Pop(@, job_id)]

RunJobResumeEffect(W, job_id, res, plan) ==
    LET tried == RunJobTry(W, job_id, res, plan)
        ended == IF tried.exc = NoExc THEN tried
                 ELSE RunJobExcept(tried.W, job_id, tried.exc, plan)
    IN  [TaskEnd(RunJobFinally(ended.W, job_id), job_id, ended.exc)
            EXCEPT !.task[job_id].runner = res.exc]

\* ---------------------------------------------------------------- ocr_client
\* responses[index]: None until the request's markdown is stored; the markdown
\* of tile i is i, the empty string is EmptyChunk
NoChunk == -1
EmptyChunk == 0
\* `chunk or ""`
ChunkOr(chunk) == IF chunk = NoChunk \/ chunk = EmptyChunk THEN EmptyChunk ELSE chunk

\* no call of submit_tiles yet
OcrIdle ==
    [pc |-> "idle", max_concurrency |-> 0, min_concurrency |-> 0, semaphore |-> 0,
     status |-> <<>>, responses |-> <<>>, gathered |-> NoExc, result |-> <<>>,
     exc |-> NoExc, answers |-> <<>>, finished |-> <<>>]

\* lines 62-64
SemaphoreLimit(max_concurrency, min_concurrency) ==
    LET limit == IF max_concurrency > 1 THEN max_concurrency ELSE 1
    IN  IF min_concurrency # 0 /\ min_concurrency > limit THEN min_concurrency ELSE limit

\* lines 48-66 and the creation of the gather: n requests, none started
SubmitTilesCall(n, max_concurrency, min_concurrency) ==
    IF n = 0 THEN [OcrIdle EXCEPT !.pc = "returned"]
    ELSE [OcrIdle EXCEPT
            !.pc = "gathering",
            !.max_concurrency = max_concurrency,
            !.min_concurrency = min_concurrency,
            !.semaphore = SemaphoreLimit(max_concurrency, min_concurrency),
            !.status = [i \in 1..n |-> "created"],
            !.responses = [i \in 1..n |-> NoChunk],
            !.answers = [i \in 1..n |-> NoChunk]]

\* line 69-72: _submit(index) enters the semaphore and awaits the post
SubmitEnter(o, index) ==
    [o EXCEPT !.semaphore = @ - 1, !.status[index] = "inflight"]

\* what a post can give: a response with markdown, with empty markdown, with
\* an error status, without markdown content, or a transport error
OcrAnswers == {"markdown", "empty", "status_error", "no_markdown", "transport_error"}

\* mutant: the markdown is appended to the responses as the requests complete
SubmitAppendsResponse(o, index, answer) ==
    LET chunk == IF answer = "markdown" THEN index ELSE EmptyChunk
        rest(o1) == [o1 EXCEPT !.semaphore = @ + 1,
                               !.finished = Append(@, index)]
    IN  IF answer \in {"markdown", "empty"}
        THEN LET done == Len(o.finished) + 1
             IN  rest([o EXCEPT !.responses[done] = chunk,
                                !.answers[index] = chunk,
                                !.status[index] = "done"])
        ELSE rest([o EXCEPT !.status[index] = "failed",
                            !.gathered = IF @ = NoExc THEN Exc(answer, "failed") ELSE @])

\* lines 72-79 and the exit of the semaphore: the post of _submit(index) is
\* over; the markdown is stored at the request's index, or the task raises
\* and the gather takes the first exception raised.  History: what was
\* answered to each request, and the order the requests were over in
SubmitLeave(o, index, answer) ==
    LET chunk == IF answer = "markdown" THEN index ELSE EmptyChunk
        rest(o1) == [o1 EXCEPT !.semaphore = @ + 1,
                               !.finished = Append(@, index)]
    IN  IF answer \in {"markdown", "empty"}
        THEN rest([o EXCEPT !.responses[index] = chunk,
                            !.answers[index] = chunk,
                            !.status[index] = "done"])
        ELSE rest([o EXCEPT !.status[index] = "failed",
                            !.gathered = IF @ = NoExc THEN Exc(answer, "failed") ELSE @])

\* the gather is over: a task raised, or every task is done
GatherOver(o) ==
    \/ o.gathered # NoExc
    \/ \A i \in 1..Len(o.status) : o.status[i] = "done"

\* lines 81-87: submit_tiles resumes from the gather and raises or returns
SubmitTilesResume(o) ==
    IF o.gathered # NoExc
    THEN [o EXCEPT !.pc = "raised", !.exc = o.gathered]
    ELSE [o EXCEPT !.pc = "returned",
                   !.result = [i \in 1..Len(o.responses) |-> ChunkOr(o.responses[i])]]

\* ------------------------------------------------------- execute_capture_job
\* the collaborator calls of the default runner, each of which may raise
CaptureSteps ==
    {"capture_tiles", "submit_tiles", "stitch_markdown", "append_warning_log",
     "write_dom_snapshot", "extract_links_from_dom", "write_links",
     "write_tiles", "write_manifest", "write_markdown"}

\* one run: the calls that raise if they are made, the number of tiles
\* captured, whether the stitched markdown is non-empty, whether the capture
\* has a DOM snapshot, whether the store has a callable write_links
CaptureInputs ==
    {inp \in [raises : SUBSET CaptureSteps, tiles : 0..MaxTiles, markdown : BOOLEAN,
              dom_snapshot : BOOLEAN, write_links : BOOLEAN] :
        inp.tiles = 0 => ~inp.markdown}

\* _run_ocr_pipeline: without tiles it returns "" and calls nothing
RunOcrPipeline(inp) ==
    IF inp.tiles = 0 THEN NoExc
    ELSE IF "submit_tiles" \in inp.raises THEN Exc("submit_tiles", "failed")
    ELSE IF "stitch_markdown" \in inp.raises THEN Exc("stitch_markdown", "failed")
    ELSE NoExc

\* mutant: what the link steps raise is not caught
DomAndLinksPropagates(inp) ==
    IF ~inp.dom_snapshot THEN [exc |-> NoExc, writes |-> <<>>, warning |-> NoExc]
    ELSE IF "write_dom_snapshot" \in inp.raises
    THEN [exc |-> Exc("write_dom_snapshot", "failed"), writes |-> <<>>, warning |-> NoExc]
    ELSE IF ~inp.write_links
    THEN [exc |-> NoExc, writes |-> <<"dom_snapshot">>, warning |-> NoExc]
    ELSE IF "extract_links_from_dom" \in inp.raises
    THEN [exc |-> Exc("extract_links_from_dom", "failed"), writes |-> <<"dom_snapshot">>,
          warning |-> NoExc]
    ELSE IF "write_links" \in inp.raises
    THEN [exc |-> Exc("write_links", "failed"), writes |-> <<"dom_snapshot">>,
          warning |-> NoExc]
    ELSE [exc |-> NoExc, writes |-> <<"dom_snapshot", "links">>, warning |-> NoExc]

\* lines 418-429: the DOM snapshot is written when there is one; the links are
\* extracted and written when it was written and the store has write_links;
\* what these two raise is logged as a warning and not raised
DomAndLinks(inp) ==
    IF ~inp.dom_snapshot THEN [exc |-> NoExc, writes |-> <<>>, warning |-> NoExc]
    ELSE IF "write_dom_snapshot" \in inp.raises
    THEN [exc |-> Exc("write_dom_snapshot", "failed"), writes |-> <<>>, warning |-> NoExc]
    ELSE IF ~inp.write_links
    THEN [exc |-> NoExc, writes |-> <<"dom_snapshot">>, warning |-> NoExc]
    ELSE IF "extract_links_from_dom" \in inp.raises
    THEN [exc |-> NoExc, writes |-> <<"dom_snapshot">>,
          warning |-> Exc("extract_links_from_dom", "failed")]
    ELSE IF "write_links" \in inp.raises
    THEN [exc |-> NoExc, writes |-> <<"dom_snapshot">>,
          warning |-> Exc("write_links", "failed")]
    ELSE [exc |-> NoExc, writes |-> <<"dom_snapshot", "links">>, warning |-> NoExc]

\* lines 430-433: tiles, manifest, and the markdown when it is not empty
WriteArtifacts(inp, writes) ==
    IF "write_tiles" \in inp.raises
    THEN [exc |-> Exc("write_tiles", "failed"), writes |-> writes]
    ELSE IF "write_manifest" \in inp.raises
    THEN [exc |-> Exc("write_manifest", "failed"), writes |-> Append(writes, "tiles")]
    ELSE IF ~inp.markdown
    THEN [exc |-> NoExc, writes |-> writes \o <<"tiles", "manifest">>]
    ELSE IF "write_markdown" \in inp.raises
    THEN [exc |-> Exc("write_markdown", "failed"),
          writes |-> writes \o <<"tiles", "manifest">>]
    ELSE [exc |-> NoExc, writes |-> writes \o <<"tiles", "manifest", "markdown">>]

\* what the call gives: it returned (ok) or raised exc, the artifacts it wrote
\* to the store in order, and the warning it logged
ExecuteCaptureJob(inp) ==
    LET Ended(exc, writes, warning) ==
            [ok |-> exc = NoExc, exc |-> exc, writes |-> writes, warning |-> warning]
    IN  IF "capture_tiles" \in inp.raises
        THEN Ended(Exc("capture_tiles", "failed"), <<>>, NoExc)
        ELSE IF RunOcrPipeline(inp) # NoExc
        THEN Ended(RunOcrPipeline(inp), <<>>, NoExc)
        ELSE IF "append_warning_log" \in inp.raises
        THEN Ended(Exc("append_warning_log", "failed"), <<>>, NoExc)
        ELSE LET dom == DomAndLinks(inp)
             IN  IF dom.exc # NoExc
                 THEN Ended(dom.exc, dom.writes, dom.warning)
                 ELSE LET written == WriteArtifacts(inp, dom.writes)
                      IN  Ended(written.exc, written.writes, dom.warning)

\* ------------------------------------------------------------------- events
\* mutant: an entry whose sequence equals min_sequence counts as newer
SequenceNewerOrEqual(event, min_sequence) == event.sequence >= min_sequence

SequenceNewer(event, min_sequence) == event.sequence > min_sequence

\* mutant: an absent min_sequence is read as 0
GetEventsNoneAsZero(W, job_id, since, min_sequence) ==
    LET events == Get(W.event_logs, job_id, <<>>)
        Keep(event) ==
            /\ since # <<>> => ParseTimestamp(event.timestamp) >= since[1]
            /\ SequenceNewer(event, IF min_sequence # <<>> THEN min_sequence[1] ELSE 0)
    IN  SelectSeq(events, Keep)

\* since and min_sequence are <<>> (None) or <<value>>
GetEvents(W, job_id, since, min_sequence) ==
    LET events == Get(W.event_logs, job_id, <<>>)
        Keep(event) ==
            /\ since # <<>> => ParseTimestamp(event.timestamp) >= since[1]
            /\ min_sequence # <<>> => SequenceNewer(event, min_sequence[1])
    IN  SelectSeq(events, Keep)

\* nothing returned yet
NoRet == [op |-> "none"]

\* the largest sequence among entries (<<>> when there is none)
LargestSequence(entries) ==
    IF entries = <<>> THEN <<>>
    ELSE <<CHOOSE n \in {entries[i].sequence : i \in 1..Len(entries)} :
              \A i \in 1..Len(entries) : entries[i].sequence <= n>>

\* a get_events call: ret holds the arguments and the list returned (KeyError
\* for an unknown job); history: the log as it was at the call, and what the
\* get_events call before this one returned last
GetEventsEffect(W, job_id, since, min_sequence) ==
    IF job_id \notin DOMAIN W.snapshots
    THEN [W EXCEPT !.ret = Raised("get_events", job_id, "KeyError")]
    ELSE [W EXCEPT !.ret =
            [op |-> "get_events", job_id |-> job_id, raised |-> "",
             since |-> since, min_sequence |-> min_sequence,
             value |-> GetEvents(W, job_id, since, min_sequence),
             log |-> Get(W.event_logs, job_id, <<>>),
             at |-> Len(Get(W.appended, job_id, <<>>)),
             prev |-> IF W.ret.op = "get_events" /\ W.ret.raised = ""
                      THEN <<[job_id |-> W.ret.job_id,
                              largest |-> LargestSequence(W.ret.value),
                              at |-> W.ret.at]>>
                      ELSE <<>>]]

\* ------------------------------------------------------------- subscriptions
NewQueue(W, job_id, kind, items, backlog) ==
    [W EXCEPT !.queues = Append(@, items),
              !.qmeta = Append(@, [job |-> job_id, kind |-> kind,
                                   subAt |-> Len(Get(W.appended, job_id, <<>>)),
                                   unsubAt |-> -1,
                                   taskpc |-> W.task[job_id].pc,
                                   backlog |-> backlog])]

\* mutant: the queue is registered without the seed
SubscribeNoSeed(W, job_id) ==
    LET queue == Len(W.queues) + 1
        W1 == NewQueue(W, job_id, "snapshot", <<>>, <<>>)
    IN  [W1 EXCEPT !.subscribers = Put(@, job_id, Append(Get(@, job_id, <<>>), queue))]

\* mutant: the queue is seeded with every snapshot of the retained log
SubscribeReplaysLog(W, job_id) ==
    IF job_id \notin DOMAIN W.snapshots
    THEN [W EXCEPT !.ret = Raised("subscribe", job_id, "KeyError")]
    ELSE
    LET queue == Len(W.queues) + 1
        log == Get(W.event_logs, job_id, <<>>)
        W1 == NewQueue(W, job_id, "snapshot",
                       [i \in 1..Len(log) |-> log[i].snapshot], <<>>)
    IN  [W1 EXCEPT !.subscribers = Put(@, job_id, Append(Get(@, job_id, <<>>), queue))]

SubscribeEffect(W, job_id) ==
    IF job_id \notin DOMAIN W.snapshots
    THEN [W EXCEPT !.ret = Raised("subscribe", job_id, "KeyError")]
    ELSE
    LET queue == Len(W.queues) + 1
        W1 == NewQueue(W, job_id, "snapshot", <<SnapshotPayload(W, job_id)>>, <<>>)
    IN  [W1 EXCEPT !.subscribers = Put(@, job_id, Append(Get(@, job_id, <<>>), queue))]

\* mutant: the queue is registered before the job is looked up (by get_events)
SubscribeEventsRegistersFirst(W, job_id, since) ==
    LET queue == Len(W.queues) + 1
        W1 == [W EXCEPT !.event_subscribers =
                            Put(@, job_id, Append(Get(@, job_id, <<>>), queue))]
    IN  IF job_id \notin DOMAIN W.snapshots
        THEN [W1 EXCEPT !.ret = Raised("subscribe_events", job_id, "KeyError")]
        ELSE NewQueue(W1, job_id, "event", <<>>, GetEvents(W1, job_id, since, <<>>))

SubscribeEventsEffect(W, job_id, since) ==
    IF job_id \notin DOMAIN W.snapshots
    THEN [W EXCEPT !.ret = Raised("subscribe_events", job_id, "KeyError")]
    ELSE
    LET queue == Len(W.queues) + 1
        W1 == [W EXCEPT !.event_subscribers =
                            Put(@, job_id, Append(Get(@, job_id, <<>>), queue))]
        backlog == GetEvents(W1, job_id, since, <<>>)
    IN  NewQueue(W1, job_id, "event", <<>>, backlog)

\* mutant: unsubscribing one queue drops the job's whole list
UnsubscribeDropsAll(registry, job_id, queue) ==
    LET subs == Get(registry, job_id, <<>>)
    IN  IF subs = <<>> THEN registry
        ELSE IF InSeq(queue, subs) THEN Pop(registry, job_id)
        ELSE registry

\* mutant: a queue that is not in the list takes the first one out
UnsubscribeRemovesHead(registry, job_id, queue) ==
    LET subs == Get(registry, job_id, <<>>)
        left == IF InSeq(queue, subs) THEN RemoveFirst(subs, queue) ELSE Tail(subs)
    IN  IF subs = <<>> THEN registry
        ELSE IF left = <<>> THEN Pop(registry, job_id)
        ELSE Put(registry, job_id, left)

\* the list left under job_id after unsubscribe / unsubscribe_events
UnsubscribeFrom(registry, job_id, queue) ==
    LET subs == Get(registry, job_id, <<>>)
        left == RemoveFirst(subs, queue)
    IN  IF subs = <<>> THEN registry
        ELSE IF left = <<>> THEN Pop(registry, job_id)
        ELSE Put(registry, job_id, left)

NoteUnsubscribed(W, registry, job_id, queue) ==
    IF InSeq(queue, Get(registry, job_id, <<>>))
    THEN [W EXCEPT !.qmeta[queue].unsubAt = Len(Get(W.appended, job_id, <<>>))]
    ELSE W

UnsubscribeEffect(W, job_id, queue) ==
    [NoteUnsubscribed(W, W.subscribers, job_id, queue)
        EXCEPT !.subscribers = UnsubscribeFrom(@, job_id, queue)]

UnsubscribeEventsEffect(W, job_id, queue) ==
    [NoteUnsubscribed(W, W.event_subscribers, job_id, queue)
        EXCEPT !.event_subscribers = UnsubscribeFrom(@, job_id, queue)]

\* ----------------------------------------------------------- register_webhook
\* mutant: a hook registered without events is triggered by DONE only
DefaultEventsDoneOnly == <<"DONE">>

DefaultEvents == <<"DONE", "FAILED">>
EventChoices == {<<>>, <<"CAPTURING", "FAILED">>}

\* history of a register_webhook call: the job, the `events` argument, the
\* number of broadcasts of the job so far, and how the call ended ("pending",
\* "store", or "raised" when the store call failed)
NoteRegistered(W, job_id, events, outcome) ==
    [W EXCEPT !.hmeta = Append(@, [job |-> job_id, events |-> events,
                                   regAt |-> Len(Get(W.appended, job_id, <<>>)),
                                   outcome |-> outcome])]

\* lines 258-264: the entry dict is appended to the active cache and written
\* to the store, or to the pending buffer when the store has no run yet.
\* storeFails: store.register_webhook raises an error that is not KeyError
RegisterNormalized(W, job_id, url, events, normalized, storeFails) ==
    LET h == Len(W.hookobjs) + 1
        W1 == [W EXCEPT !.hookobjs = Append(@, [url |-> url, events |-> normalized,
                                                id |-> <<>>]),
                        !.webhooks = Put(@, job_id, Append(Get(@, job_id, <<>>), h))]
    IN  IF ~StoreHasRun(W1.store, job_id)
        THEN NoteRegistered(
                [W1 EXCEPT !.pending_webhooks = Put(@, job_id, Append(Get(@, job_id, <<>>), h))],
                job_id, events, "pending")
        ELSE IF storeFails THEN NoteRegistered(W1, job_id, events, "raised")
        ELSE NoteRegistered(
                [W1 EXCEPT !.store = StoreRegisterWebhook(@, job_id, url, normalized),
                           !.hookobjs[h].id = <<W1.store.next_id>>],
                job_id, events, "store")

\* the names of `events` that are JobState values
ValidNames(events) == SelectSeq(events, LAMBDA name : name \in StateValues)

\* mutant: names that are not JobState values are skipped, the others registered
RegisterSkipsInvalidNames(W, job_id, url, events, storeFails) ==
    IF job_id \notin DOMAIN W.snapshots
    THEN [W EXCEPT !.ret = Raised("register_webhook", job_id, "KeyError")]
    ELSE IF events # <<>> /\ ValidNames(events) = <<>>
    THEN [W EXCEPT !.ret = Raised("register_webhook", job_id, "ValueError")]
    ELSE RegisterNormalized(W, job_id, url, events,
                            IF events = <<>> THEN DefaultEvents ELSE ValidNames(events),
                            storeFails)

\* lines 248-257: the job is looked up, then every name is validated, before
\* anything is written
RegisterWebhookEffect(W, job_id, url, events, storeFails) ==
    IF job_id \notin DOMAIN W.snapshots
    THEN [W EXCEPT !.ret = Raised("register_webhook", job_id, "KeyError")]
    ELSE IF ValidNames(events) # events
    THEN [W EXCEPT !.ret = Raised("register_webhook", job_id, "ValueError")]
    ELSE RegisterNormalized(W, job_id, url, events,
                            IF events = <<>> THEN DefaultEvents ELSE events,
                            storeFails)

\* ------------------------------------------------------------- delete_webhook
\* webhook_id and url are <<>> (None) or <<value>>
WebhookMatches(entry, webhook_id, url) ==
    \/ url # <<>> /\ url[1] # "" /\ entry.url = url[1]
    \/ webhook_id # <<>> /\ entry.id = webhook_id

\* mutant: the entries that match are the ones kept
PruneKeepsMatching(W, source, job_id, webhook_id, url) ==
    LET entries == Get(source, job_id, <<>>)
        Kept(h) == WebhookMatches(W.hookobjs[h], webhook_id, url)
        remaining == SelectSeq(entries, Kept)
    IN  IF entries = <<>> THEN [source |-> source, removed |-> 0]
        ELSE [source |-> IF remaining # <<>> THEN Put(source, job_id, remaining)
                         ELSE Pop(source, job_id),
              removed |-> Len(entries) - Len(remaining)]

\* source is _webhooks or _pending_webhooks; the result is the dict after the
\* prune and the number of entries removed
PruneWebhookEntries(W, source, job_id, webhook_id, url) ==
    LET entries == Get(source, job_id, <<>>)
        Kept(h) == ~WebhookMatches(W.hookobjs[h], webhook_id, url)
        remaining == SelectSeq(entries, Kept)
    IN  IF entries = <<>> THEN [source |-> source, removed |-> 0]
        ELSE [source |-> IF remaining # <<>> THEN Put(source, job_id, remaining)
                         ELSE Pop(source, job_id),
              removed |-> Len(entries) - Len(remaining)]

\* Python's `a or b` on ints
IntOr(a, b) == IF a # 0 THEN a ELSE b
Max(a, b) == IF a >= b THEN a ELSE b

\* mutant: the cache and the pending buffer are counted separately
RemoveCachedCountsBoth(W, job_id, webhook_id, url) ==
    LET active == PruneWebhookEntries(W, W.webhooks, job_id, webhook_id, url)
        pending == PruneWebhookEntries(W, W.pending_webhooks, job_id, webhook_id, url)
    IN  [W |-> [W EXCEPT !.webhooks = active.source,
                         !.pending_webhooks = pending.source],
         removed |-> active.removed + pending.removed]

\* mutant: only the active cache is pruned, the pending buffer is left
RemoveCachedActiveOnly(W, job_id, webhook_id, url) ==
    LET active == PruneWebhookEntries(W, W.webhooks, job_id, webhook_id, url)
    IN  [W |-> [W EXCEPT !.webhooks = active.source],
         removed |-> active.removed]

RemoveCachedWebhooks(W, job_id, webhook_id, url) ==
    LET active == PruneWebhookEntries(W, W.webhooks, job_id, webhook_id, url)
        pending == PruneWebhookEntries(W, W.pending_webhooks, job_id, webhook_id, url)
    IN  [W |-> [W EXCEPT !.webhooks = active.source,
                         !.pending_webhooks = pending.source],
         removed |-> IntOr(active.removed, pending.removed)]

\* the delete_webhook calls that returned so far
DeleteCalls(W) == IF W.ret.op = "delete_webhook" /\ W.ret.raised = "" THEN W.ret.calls ELSE 0

\* history of a delete_webhook call: the arguments, the webhook caches and the
\* store before and after it (run: the store knew the run), and the
\* delete_webhook call before this one
DeleteReturned(W, W2, job_id, webhook_id, url, value) ==
    [op |-> "delete_webhook", job_id |-> job_id, raised |-> "",
     webhook_id |-> webhook_id, url |-> url, value |-> value,
     before |-> [webhooks |-> Get(W.webhooks, job_id, <<>>),
                 pending |-> Get(W.pending_webhooks, job_id, <<>>),
                 store |-> W.store.webhooks,
                 run |-> StoreHasRun(W.store, job_id),
                 hookobjs |-> W.hookobjs],
     after |-> [webhooks |-> Get(W2.webhooks, job_id, <<>>),
                pending |-> Get(W2.pending_webhooks, job_id, <<>>),
                store |-> W2.store.webhooks],
     prev |-> IF W.ret.op = "delete_webhook" /\ W.ret.raised = ""
              THEN <<[job_id |-> W.ret.job_id, webhook_id |-> W.ret.webhook_id,
                      url |-> W.ret.url, value |-> W.ret.value,
                      registered |-> W.ret.registered]>>
              ELSE <<>>,
     registered |-> Len(W.hookobjs),
     calls |-> DeleteCalls(W) + 1]

\* mutant: the store's KeyError is raised also for a job with a snapshot
DeleteRaisesWithoutRun(W, job_id, webhook_id, url, storeFails) ==
    IF ~StoreHasRun(W.store, job_id)
    THEN [W EXCEPT !.ret = Raised("delete_webhook", job_id, "KeyError")]
    ELSE IF storeFails
    THEN [W EXCEPT !.ret = Raised("delete_webhook", job_id, "StoreError")]
    ELSE
    LET stored == StoreDeleteWebhooks(W.store, job_id, webhook_id, url)
        W1 == [W EXCEPT !.store = stored.st]
        cached == RemoveCachedWebhooks(W1, job_id, webhook_id, url)
        value == IF stored.deleted # 0 \/ cached.removed # 0
                 THEN Max(stored.deleted, cached.removed)
                 ELSE 0
    IN  [cached.W EXCEPT !.ret = DeleteReturned(W, cached.W, job_id, webhook_id, url, value)]

\* storeFails: store.delete_webhooks raises an error that is not KeyError;
\* the store raises KeyError for a job whose run it does not hold
DeleteWebhookEffect(W, job_id, webhook_id, url, storeFails) ==
    IF ~StoreHasRun(W.store, job_id) /\ job_id \notin DOMAIN W.snapshots
    THEN [W EXCEPT !.ret = Raised("delete_webhook", job_id, "KeyError")]
    ELSE IF StoreHasRun(W.store, job_id) /\ storeFails
    THEN [W EXCEPT !.ret = Raised("delete_webhook", job_id, "StoreError")]
    ELSE
    LET stored == IF StoreHasRun(W.store, job_id)
                  THEN StoreDeleteWebhooks(W.store, job_id, webhook_id, url)
                  ELSE [st |-> W.store, deleted |-> 0]
        W1 == [W EXCEPT !.store = stored.st]
        cached == RemoveCachedWebhooks(W1, job_id, webhook_id, url)
        value == IF stored.deleted # 0 \/ cached.removed # 0
                 THEN Max(stored.deleted, cached.removed)
                 ELSE 0
    IN  [cached.W EXCEPT !.ret = DeleteReturned(W, cached.W, job_id, webhook_id, url, value)]

\* -------------------------------------------------------------------- actions
Init ==
    /\ snapshots = EmptyDict
    /\ tasks = EmptyDict
    /\ subscribers = EmptyDict
    /\ event_logs = EmptyDict
    /\ event_sequences = EmptyDict
    /\ event_subscribers = EmptyDict
    /\ webhooks = EmptyDict
    /\ pending_webhooks = EmptyDict
    /\ store = EmptyStore
    /\ queues = <<>>
    /\ hookobjs = <<>>
    /\ task = EmptyDict
    /\ sent = <<>>
    /\ now = 0
    /\ heap = <<>>
    /\ ret = NoRet
    /\ hmeta = <<>>
    /\ appended = EmptyDict
    /\ qmeta = <<>>
    /\ ocr = OcrIdle
    /\ streams = EmptyDict

CreateJobOf(order) ==
    /\ Cardinality(DOMAIN snapshots) < Len(order)
    /\ \E url \in Urls :
          Commit(CreateJobEffect(World, order[Cardinality(DOMAIN snapshots) + 1], url))

CreateJob == CreateJobOf(JobOrder)

RunJobStartWith(job_id, failures) ==
    /\ job_id \in DOMAIN task
    /\ task[job_id].pc = "scheduled"
    /\ \E fail \in failures :
          \E failAt \in (1..Len(Get(pending_webhooks, job_id, <<>>))) \cup {1} :
             /\ fail = "register_webhook" => Get(pending_webhooks, job_id, <<>>) # <<>>
             /\ fail # "register_webhook" => failAt = 1
             /\ Commit(RunJobStartEffect(World, job_id, fail, failAt))

RunJobStart(job_id) == RunJobStartWith(job_id, StartFailures)

\* a plan names an outcome only for the store calls the run makes
PlanUsed(res, plan) ==
    /\ ~res.ok => plan.fetch_run = "ok"
    /\ (~res.ok \/ plan.fetch_run = "raise") => plan.update_done = "ok"
    /\ (res.ok /\ plan.fetch_run = "ok" /\ plan.update_done = "ok")
          => plan.update_failed = "ok"

RunJobResumeWith(job_id, results, plans) ==
    /\ job_id \in DOMAIN task
    /\ task[job_id].pc = "awaiting"
    /\ \E res \in results :
          \E plan \in plans :
             /\ PlanUsed(res, plan)
             /\ Commit(RunJobResumeEffect(World, job_id, res, plan))

RunJobResume(job_id) == RunJobResumeWith(job_id, RunnerResults, ResumePlans)

\* the task resumes with execute_capture_job as the runner; history: the run's
\* input, the store outcomes of _run_job and what the runner gave
RunCaptureJob(job_id) ==
    /\ job_id \in DOMAIN task
    /\ task[job_id].pc = "awaiting"
    /\ \E inp \in CaptureInputs :
          \E plan \in ResumePlans :
             LET out == ExecuteCaptureJob(inp)
                 res == [ok |-> out.ok,
                         tiles_total |-> IF out.ok THEN inp.tiles ELSE 0,
                         exc |-> out.exc]
             IN  /\ PlanUsed(res, plan)
                 /\ Commit([RunJobResumeEffect(World, job_id, res, plan) EXCEPT
                               !.ret = [op |-> "execute_capture_job", job_id |-> job_id,
                                        raised |-> "", input |-> inp, plan |-> plan,
                                        output |-> out]])

Subscribe(job_id, limit) ==
    /\ job_id \in DOMAIN snapshots
    /\ Len(queues) < limit
    /\ Commit(SubscribeEffect(World, job_id))

SubscribeEvents(job_id, limit) ==
    /\ job_id \in DOMAIN snapshots
    /\ Len(queues) < limit
    /\ Commit(SubscribeEventsEffect(World, job_id, <<>>))

Unsubscribe(job_id) ==
    \E queue \in 1..Len(queues) :
       /\ qmeta[queue].kind = "snapshot"
       /\ Commit(UnsubscribeEffect(World, job_id, queue))

UnsubscribeEvents(job_id) ==
    \E queue \in 1..Len(queues) :
       /\ qmeta[queue].kind = "event"
       /\ Commit(UnsubscribeEventsEffect(World, job_id, queue))

RegisterWebhookWith(job_id, limit, urls, choices, storeOutcomes) ==
    /\ job_id \in DOMAIN snapshots
    /\ Len(hookobjs) < limit
    /\ \E url \in urls :
          \E events \in choices :
             \E storeFails \in storeOutcomes :
                /\ \A i \in 1..Len(events) : events[i] \in StateValues
                /\ storeFails => StoreHasRun(store, job_id)
                /\ Commit(RegisterWebhookEffect(World, job_id, url, events, storeFails))

RegisterWebhook(job_id, limit, urls, choices) ==
    RegisterWebhookWith(job_id, limit, urls, choices, BOOLEAN)

\* the clock moves on
Tick ==
    /\ now < MaxNow
    /\ Commit([World EXCEPT !.now = @ + 1])

Sinces == {<<>>} \cup {<<t>> : t \in 0..MaxNow}
MinSequences == {<<>>} \cup {<<n>> : n \in 0..MaxMinSequence}

GetEventsCall(job_id) ==
    \E since \in Sinces :
       \E min_sequence \in MinSequences :
          Commit(GetEventsEffect(World, job_id, since, min_sequence))

GetSnapshotCall(job_id) == Commit(GetSnapshotEffect(World, job_id))

HoldsReturnedSnapshot ==
    /\ ret.op \in {"create_job", "get_snapshot"}
    /\ ret.raised = ""
    /\ ret.writes < MaxWrites

WriteTopLevel ==
    /\ HoldsReturnedSnapshot
    /\ Commit(WriteTopLevelEffect(World))

WriteNested ==
    /\ HoldsReturnedSnapshot
    /\ \E key \in NestedKeys :
          /\ ret.value[key] # Absent
          /\ Commit(WriteNestedEffect(World, key))

\* the sender tasks the loop has run
SenderRuns == {i \in 1..Len(sent) : sent[i].status # "scheduled"}

SenderRun ==
    /\ Cardinality(SenderRuns) < MaxSenderRuns
    /\ \E i \in 1..Len(sent) :
          /\ sent[i].status = "scheduled"
          /\ \E outcome \in SenderOutcomes :
                Commit(SenderRunEffect(World, i, outcome))

\* the callers of delete_webhook pass a durable id or a url
DeleteUrls == {"https://example.com/hook", "https://example.com/other"}
DeleteArguments ==
    {[webhook_id |-> <<n>>, url |-> <<>>] : n \in 1..MaxDeleteHooks}
    \cup {[webhook_id |-> <<>>, url |-> <<u>>] : u \in DeleteUrls}

DeleteWebhookBy(job_id, limit, arguments) ==
    /\ DeleteCalls(World) < limit
    /\ \E args \in arguments :
         \E storeFails \in BOOLEAN :
            /\ storeFails => StoreHasRun(store, job_id)
            /\ Commit(DeleteWebhookEffect(World, job_id, args.webhook_id, args.url,
                                          storeFails))

DeleteWebhook(job_id) == DeleteWebhookBy(job_id, MaxDeletes, DeleteArguments)

\* the same callers where the run goes on after the delete: by url, or by the
\* first durable id
LateDeleteArguments ==
    {[webhook_id |-> <<1>>, url |-> <<>>]}
    \cup {[webhook_id |-> <<>>, url |-> <<u>>] : u \in DeleteUrls}

\* callers that pass any job id, created or not, and any list of event names
CallEventChoices ==
    {<<>>, <<"DONE">>, <<"BOGUS">>, <<"DONE", "BOGUS">>, <<"BOGUS", "DONE">>}

SubscribeCall(job_id, limit) ==
    /\ job_id \in DOMAIN snapshots => Len(queues) < limit
    /\ Commit(SubscribeEffect(World, job_id))

SubscribeEventsCall(job_id, limit) ==
    /\ job_id \in DOMAIN snapshots => Len(queues) < limit
    /\ Commit(SubscribeEventsEffect(World, job_id, <<>>))

\* get_events(job_id) with neither since nor min_sequence
GetEventsAllCall(job_id) == Commit(GetEventsEffect(World, job_id, <<>>, <<>>))

RegisterWebhookCall(job_id, limit) ==
    \E url \in HookUrls :
       \E events \in CallEventChoices :
          \E storeFails \in BOOLEAN :
             LET registers == job_id \in DOMAIN snapshots /\ ValidNames(events) = events
             IN  /\ registers => Len(hookobjs) < limit
                 /\ storeFails => (registers /\ StoreHasRun(store, job_id))
                 /\ Commit(RegisterWebhookEffect(World, job_id, url, events, storeFails))

\* the runner and the subscribers
Next ==
    \/ CreateJob
    \/ \E job_id \in JobIds : RunJobStart(job_id)
    \/ \E job_id \in JobIds : RunJobResume(job_id)
    \/ \E job_id \in JobIds : Subscribe(job_id, MaxQueues)
    \/ \E job_id \in JobIds : SubscribeEvents(job_id, MaxQueues)
    \/ \E job_id \in JobIds : Unsubscribe(job_id)
    \/ \E job_id \in JobIds : UnsubscribeEvents(job_id)

Spec == Init /\ [][Next]_vars

\* the same with webhook registrations
NextHooks ==
    \/ CreateJob
    \/ \E job_id \in JobIds : RunJobStart(job_id)
    \/ \E job_id \in JobIds : RunJobResume(job_id)
    \/ \E job_id \in JobIds : Subscribe(job_id, MaxHookQueues)
    \/ \E job_id \in JobIds : SubscribeEvents(job_id, MaxHookQueues)
    \/ \E job_id \in JobIds : Unsubscribe(job_id)
    \/ \E job_id \in JobIds : UnsubscribeEvents(job_id)
    \/ \E job_id \in JobIds : RegisterWebhook(job_id, MaxHooks, HookUrls, EventChoices)

SpecHooks == Init /\ [][NextHooks]_vars

\* the runner, the clock and a reader of the event log
NextEvents ==
    \/ CreateJob
    \/ \E job_id \in JobIds : RunJobStart(job_id)
    \/ \E job_id \in JobIds : RunJobResume(job_id)
    \/ Tick
    \/ \E job_id \in JobIds : GetEventsCall(job_id)

SpecEvents == Init /\ [][NextEvents]_vars

\* the runner, a subscriber, and a caller that writes into what it was returned
NextCopies ==
    \/ CreateJob
    \/ \E job_id \in JobIds : RunJobStart(job_id)
    \/ \E job_id \in JobIds : RunJobResume(job_id)
    \/ \E job_id \in JobIds : Subscribe(job_id, MaxCopyQueues)
    \/ \E job_id \in JobIds : GetSnapshotCall(job_id)
    \/ WriteTopLevel
    \/ WriteNested

SpecCopies == Init /\ [][NextCopies]_vars

\* the runner, webhook registrations and the sender tasks
NextSenders ==
    \/ CreateJob
    \/ \E job_id \in JobIds : RunJobStart(job_id)
    \/ \E job_id \in JobIds : RunJobResume(job_id)
    \/ \E job_id \in JobIds : RegisterWebhook(job_id, MaxSenderHooks, HookUrls, EventChoices)
    \/ SenderRun

SpecSenders == Init /\ [][NextSenders]_vars

\* the runner up to its await (run allocation and pending flush), and callers
\* that register and delete webhooks
NextDelete ==
    \/ CreateJob
    \/ \E job_id \in JobIds : RunJobStart(job_id)
    \/ \E job_id \in JobIds : RegisterWebhook(job_id, MaxDeleteHooks, DeleteUrls, {<<>>})
    \/ \E job_id \in JobIds : DeleteWebhook(job_id)

SpecDelete == Init /\ [][NextDelete]_vars

\* the runner up to its await, and callers that pass any argument
NextCalls ==
    \/ CreateJob
    \/ \E job_id \in JobIds : RunJobStart(job_id)
    \/ \E job_id \in JobIds : GetSnapshotCall(job_id)
    \/ \E job_id \in JobIds : SubscribeCall(job_id, MaxCallQueues)
    \/ \E job_id \in JobIds : SubscribeEventsCall(job_id, MaxCallQueues)
    \/ \E job_id \in JobIds : GetEventsAllCall(job_id)
    \/ \E job_id \in JobIds : RegisterWebhookCall(job_id, MaxCallHooks)

SpecCalls == Init /\ [][NextCalls]_vars

\* the whole runner, and callers that register and delete webhooks: deletes
\* come before the broadcasts and the pending flush of the run
NextLate ==
    \/ CreateJob
    \/ \E job_id \in JobIds : RunJobStart(job_id)
    \/ \E job_id \in JobIds : RunJobResume(job_id)
    \/ \E job_id \in JobIds : RegisterWebhook(job_id, MaxLateHooks, DeleteUrls, {<<>>})
    \/ \E job_id \in JobIds : DeleteWebhookBy(job_id, MaxLateDeletes, LateDeleteArguments)

SpecLate == Init /\ [][NextLate]_vars

\* ----------------------------------------------------------- stream handlers
\* W: the state after the handler's subscribe call.  On KeyError the handler
\* raises 404; else it returns a StreamingResponse over event_generator(),
\* whose body has not started to run
StreamOpened(W, handler, job_id) ==
    IF job_id \notin DOMAIN W.snapshots THEN W
    ELSE [W EXCEPT !.streams = Put(@, Len(W.queues),
                                   [handler |-> handler, job_id |-> job_id,
                                    pc |-> "created", disconnected |-> FALSE])]

\* GET /jobs/{job_id}/stream
JobStream(job_id) ==
    /\ Cardinality(DOMAIN streams) < MaxStreams
    /\ Commit(StreamOpened(SubscribeEffect(World, job_id), "job_stream", job_id))

\* GET /jobs/{job_id}/events
JobEvents(job_id) ==
    /\ Cardinality(DOMAIN streams) < MaxStreams
    /\ Commit(StreamOpened(SubscribeEventsEffect(World, job_id, <<>>), "job_events",
                           job_id))

\* the client goes away
ClientDisconnects ==
    \E queue \in DOMAIN streams :
       /\ ~streams[queue].disconnected
       /\ streams[queue].pc \in {"created", "running"}
       /\ Commit([World EXCEPT !.streams[queue].disconnected = TRUE])

\* the response iterates the generator for the first time: the body enters
\* its try block
StreamStarts ==
    \E queue \in DOMAIN streams :
       /\ streams[queue].pc = "created"
       /\ Commit([World EXCEPT !.streams[queue].pc = "running"])

\* the client went away before the response iterated the generator: the
\* response is dropped and the generator's body, its finally block included,
\* never runs
StreamDropped ==
    \E queue \in DOMAIN streams :
       /\ streams[queue].pc = "created"
       /\ streams[queue].disconnected
       /\ Commit([World EXCEPT !.streams[queue].pc = "dropped"])

\* one turn of the loop with the client connected: queue.get() gives an item
\* that is yielded, request.is_disconnected() is false
StreamYields ==
    \E queue \in DOMAIN streams :
       /\ streams[queue].pc = "running"
       /\ ~streams[queue].disconnected
       /\ queues[queue] # <<>>
       /\ Commit([World EXCEPT !.queues[queue] = Tail(@)])

\* the running generator ends after the client went away (is_disconnected()
\* is true and the loop breaks, or the generator is closed at its yield): the
\* finally block unsubscribes the queue
StreamEnds ==
    \E queue \in DOMAIN streams :
       /\ streams[queue].pc = "running"
       /\ streams[queue].disconnected
       /\ LET W == [World EXCEPT !.streams[queue].pc = "closed"]
              job_id == streams[queue].job_id
          IN  Commit(IF streams[queue].handler = "job_stream"
                     THEN UnsubscribeEffect(W, job_id, queue)
                     ELSE UnsubscribeEventsEffect(W, job_id, queue))

\* the runner and the clients of the two stream endpoints
NextStreams ==
    \/ CreateJob
    \/ \E job_id \in JobIds : RunJobStart(job_id)
    \/ \E job_id \in JobIds : RunJobResume(job_id)
    \/ \E job_id \in JobIds : JobStream(job_id)
    \/ \E job_id \in JobIds : JobEvents(job_id)
    \/ ClientDisconnects
    \/ StreamStarts
    \/ StreamDropped
    \/ StreamYields
    \/ StreamEnds

SpecStreams == Init /\ [][NextStreams]_vars

\* submit_tiles: the call, its request tasks in any order, and its return
SubmitTiles ==
    /\ ocr.pc = "idle"
    /\ \E n \in 0..MaxRequests :
          \E max_concurrency \in 0..MaxConcurrency :
             \E min_concurrency \in 0..MaxConcurrency :
                Commit([World EXCEPT
                          !.ocr = SubmitTilesCall(n, max_concurrency, min_concurrency)])

SubmitTaskEnters ==
    \E index \in 1..Len(ocr.status) :
       /\ ocr.status[index] = "created"
       /\ ocr.semaphore > 0
       /\ Commit([World EXCEPT !.ocr = SubmitEnter(ocr, index)])

SubmitTaskLeaves ==
    \E index \in 1..Len(ocr.status) :
       /\ ocr.status[index] = "inflight"
       /\ \E answer \in OcrAnswers :
             Commit([World EXCEPT !.ocr = SubmitLeave(ocr, index, answer)])

SubmitTilesEnds ==
    /\ ocr.pc = "gathering"
    /\ GatherOver(ocr)
    /\ Commit([World EXCEPT !.ocr = SubmitTilesResume(ocr)])

NextOcr ==
    \/ SubmitTiles
    \/ SubmitTaskEnters
    \/ SubmitTaskLeaves
    \/ SubmitTilesEnds

SpecOcr == Init /\ [][NextOcr]_vars

\* the task with the default runner, execute_capture_job
NextCapture ==
    \/ CreateJob
    \/ \E job_id \in JobIds : RunJobStart(job_id)
    \/ \E job_id \in JobIds : RunCaptureJob(job_id)

SpecCapture == Init /\ [][NextCapture]_vars

\* two jobs side by side: their runners, snapshot subscribers and webhook
\* callers; the store works, and a runner returns one tile or raises
PairResults ==
    {[ok |-> TRUE, tiles_total |-> 1, exc |-> NoExc],
     [ok |-> FALSE, tiles_total |-> 0, exc |-> Exc("E_ocr", "ocr failed")]}
PairPlans == {[fetch_run |-> "ok", update_done |-> "ok", update_failed |-> "ok"]}

NextPair ==
    \/ CreateJobOf(PairOrder)
    \/ \E job_id \in PairIds : RunJobStartWith(job_id, {"none"})
    \/ \E job_id \in PairIds : RunJobResumeWith(job_id, PairResults, PairPlans)
    \/ \E job_id \in PairIds : Subscribe(job_id, MaxPairQueues)
    \/ \E job_id \in PairIds :
          RegisterWebhookWith(job_id, MaxPairHooks, HookUrls, {<<>>}, {FALSE})

SpecPair == Init /\ [][NextPair]_vars

\* A runner step of job_id can be taken exactly when its task exists and has
\* not ended: RunJobStart and RunJobResume have an outcome for every input and
\* each moves task[job_id].pc.
RunnerEnabled(job_id) == job_id \in DOMAIN task /\ task[job_id].pc # "done"

RunnerStep(job_id) == RunJobStart(job_id) \/ RunJobResume(job_id)

\* asyncio runs every task it was given, and the awaited runner returns or
\* raises: weak fairness of the runner steps, WF_vars(RunnerStep(job_id)),
\* written out with RunnerEnabled for ENABLED <<RunnerStep(job_id)>>_vars.
FairSpec ==
    /\ Spec
    /\ \A job_id \in JobIds :
          []<>(~RunnerEnabled(job_id)) \/ []<><<RunnerStep(job_id)>>_vars

\* The same for the runner among sender tasks.  Nothing is assumed of the
\* sender tasks: a sender may never complete.
FairSenders ==
    /\ SpecSenders
    /\ \A job_id \in JobIds :
          []<>(~RunnerEnabled(job_id)) \/ []<><<RunnerStep(job_id)>>_vars

\* ===================================================================== claims
Terminal == {"DONE", "FAILED"}
HasError(payload) == payload.error # None /\ payload.error # ""

\* every entry ever appended for a job, evicted or not
AllEntries(job_id) == Get(appended, job_id, <<>>)

\* the snapshot payloads put on a queue, or carried by the entries put on it
QueuedPayloads(queue) ==
    IF qmeta[queue].kind = "snapshot" THEN queues[queue]
    ELSE [i \in 1..Len(queues[queue]) |-> queues[queue][i].snapshot]

\* every payload an observer can get: the current snapshots, the queued items,
\* the log entries (retained or evicted) and the webhook payloads
ObservablePayloads ==
    {SnapshotPayload(World, j) : j \in DOMAIN snapshots}
    \cup UNION {{QueuedPayloads(q)[i] : i \in 1..Len(queues[q])} : q \in 1..Len(queues)}
    \cup UNION {{event_logs[j][i].snapshot : i \in 1..Len(event_logs[j])} : j \in DOMAIN event_logs}
    \cup UNION {{AllEntries(j)[i].snapshot : i \in 1..Len(AllEntries(j))} : j \in DOMAIN appended}
    \cup {sent[i].payload.snapshot : i \in 1..Len(sent)}

\* the payloads pushed to observers: queues, event log, webhooks
PushedPayloads ==
    UNION {{QueuedPayloads(q)[i] : i \in 1..Len(queues[q])} : q \in 1..Len(queues)}
    \cup UNION {{AllEntries(j)[i].snapshot : i \in 1..Len(AllEntries(j))} : j \in DOMAIN appended}
    \cup {sent[i].payload.snapshot : i \in 1..Len(sent)}

\* a sequence of payloads never leaves a terminal state once it shows one
StaysTerminal(payloads) ==
    \A i \in 1..Len(payloads) : \A k \in (i + 1)..Len(payloads) :
        payloads[i].state \in Terminal => payloads[k].state = payloads[i].state

\* C1: once a job's state has become DONE or FAILED, no later broadcast,
\* event-log entry or queued snapshot of that job carries a different state.
C1_TerminalStateIsFinal ==
    /\ \A j \in DOMAIN appended :
          StaysTerminal([i \in 1..Len(AllEntries(j)) |-> AllEntries(j)[i].snapshot])
    /\ \A q \in 1..Len(queues) : StaysTerminal(QueuedPayloads(q))

\* C2: when a job's task has ended, its snapshot is in state DONE or FAILED.
C2_TaskEndsInTerminalState ==
    \A j \in DOMAIN task :
        task[j].pc = "done" => SnapshotPayload(World, j).state \in Terminal

\* C3: if the pipeline runner raised E, then once the task has finished the
\* snapshot is FAILED with error str(E) and awaiting the task raises E.
C3_RunnerErrorIsReraised ==
    \A j \in DOMAIN task :
        (task[j].pc = "done" /\ task[j].runner # NoExc) =>
            /\ SnapshotPayload(World, j).state = "FAILED"
            /\ SnapshotPayload(World, j).error = Str(task[j].runner)
            /\ task[j].exc = task[j].runner

\* C4: in every observable payload (current snapshot, queued item, log entry,
\* webhook payload) a non-empty error implies state FAILED.
C4_ErrorOnlyWhenFailed ==
    \A payload \in ObservablePayloads : HasError(payload) => payload.state = "FAILED"

C4_Witness ==
    /\ \E i \in 1..Len(sent) : HasError(sent[i].payload.snapshot)
    /\ \E q \in 1..Len(queues) : \E i \in 1..Len(queues[q]) : HasError(QueuedPayloads(q)[i])
    /\ \E j \in DOMAIN event_logs : \E i \in 1..Len(event_logs[j]) :
          HasError(event_logs[j][i].snapshot)

\* C5: every pushed payload (queue, event log, webhook) with state FAILED
\* carries a non-empty error, and every one with state DONE carries none.
C5_NoPartialState ==
    \A payload \in PushedPayloads :
        /\ payload.state = "FAILED" => HasError(payload)
        /\ payload.state = "DONE" => ~HasError(payload)

\* C6: the k-th entry ever appended to a job's log carries sequence k-1, and
\* the retained entries keep the numbers they were appended with.
C6_SequenceIsAppendIndex ==
    \A j \in DOMAIN appended :
        /\ \A k \in 1..Len(AllEntries(j)) : AllEntries(j)[k].sequence = k - 1
        /\ \A i \in 1..Len(event_logs[j]) :
              event_logs[j][i] = AllEntries(j)[event_logs[j][i].sequence + 1]

C6_Witness ==
    \E j \in DOMAIN appended :
        /\ Len(AllEntries(j)) > EVENT_HISTORY_LIMIT + 1
        /\ event_logs[j][1].sequence > 0

\* the last n elements of a sequence (all of it when it is shorter)
LastN(s, n) == IF Len(s) > n THEN SubSeq(s, Len(s) - n + 1, Len(s)) ELSE s

\* C7: a job's log holds at most EVENT_HISTORY_LIMIT entries, exactly the most
\* recently appended ones, in append order, adjacent sequences differing by 1.
C7_LogIsCappedSuffix ==
    \A j \in DOMAIN event_logs :
        /\ Len(event_logs[j]) <= EVENT_HISTORY_LIMIT
        /\ event_logs[j] = LastN(AllEntries(j), EVENT_HISTORY_LIMIT)
        /\ \A i \in 1..(Len(event_logs[j]) - 1) :
              event_logs[j][i + 1].sequence = event_logs[j][i].sequence + 1

C7_Witness ==
    \E j \in DOMAIN event_logs :
        /\ Len(AllEntries(j)) >= EVENT_HISTORY_LIMIT + 2
        /\ Len(event_logs[j]) = EVENT_HISTORY_LIMIT

\* the entries broadcast for a queue's job while the queue was subscribed
BroadcastWhileSubscribed(queue) ==
    LET all == AllEntries(qmeta[queue].job)
        upto == IF qmeta[queue].unsubAt = -1 THEN Len(all) ELSE qmeta[queue].unsubAt
    IN  SubSeq(all, qmeta[queue].subAt + 1, upto)

\* C8: what is put on a queue after it was subscribed is exactly the job's
\* broadcasts between subscribe and unsubscribe, once each, in order; on an
\* event queue the sequence numbers are consecutive.
C8_QueueGetsItsBroadcasts ==
    \A q \in 1..Len(queues) :
        LET during == BroadcastWhileSubscribed(q)
        IN  IF qmeta[q].kind = "snapshot"
            THEN /\ Len(queues[q]) = Len(during) + 1
                 /\ \A i \in 1..Len(during) : queues[q][i + 1] = during[i].snapshot
            ELSE /\ queues[q] = during
                 /\ \A i \in 1..(Len(queues[q]) - 1) :
                       queues[q][i + 1].sequence = queues[q][i].sequence + 1

\* two queues of one job, one unsubscribed before a broadcast the other got
C8_Witness ==
    \E q1, q2 \in 1..Len(queues) :
        /\ q1 # q2
        /\ qmeta[q1].job = qmeta[q2].job
        /\ qmeta[q1].kind = qmeta[q2].kind
        /\ qmeta[q1].unsubAt # -1
        /\ qmeta[q1].unsubAt < Len(AllEntries(qmeta[q1].job))
        /\ qmeta[q2].unsubAt = -1
        /\ Len(BroadcastWhileSubscribed(q1)) >= 1
        /\ Len(BroadcastWhileSubscribed(q2)) > Len(BroadcastWhileSubscribed(q1))

\* C9: the backlog subscribe_events returns, followed by what the queue gets
\* later, is every entry retained at the call and every later one, once each
\* and in order; queued entries are newer than the last backlog entry.
C9_BacklogThenQueueIsComplete ==
    \A q \in 1..Len(queues) :
        qmeta[q].kind = "event" =>
            LET all == AllEntries(qmeta[q].job)
                upto == IF qmeta[q].unsubAt = -1 THEN Len(all) ELSE qmeta[q].unsubAt
                retained == LastN(SubSeq(all, 1, qmeta[q].subAt), EVENT_HISTORY_LIMIT)
            IN  /\ qmeta[q].backlog \o queues[q] = retained \o SubSeq(all, qmeta[q].subAt + 1, upto)
                /\ \A i \in 1..Len(queues[q]) : \A k \in 1..Len(qmeta[q].backlog) :
                      queues[q][i].sequence > qmeta[q].backlog[k].sequence

C9_Witness ==
    \E q \in 1..Len(queues) :
        /\ qmeta[q].kind = "event"
        /\ Len(qmeta[q].backlog) >= 2
        /\ Len(queues[q]) >= 2

\* a snapshot queue subscribed right after create_job, before the task started
ImmediateSubscriber(q) ==
    /\ q <= Len(queues)
    /\ qmeta[q].kind = "snapshot"
    /\ qmeta[q].taskpc = "scheduled"

\* the task of the queue's job has ended and, when it ended without an
\* exception and the queue stayed subscribed, the last item is DONE with
\* progress done = total
DoneIsLastItem(q) ==
    /\ ImmediateSubscriber(q)
    /\ Len(queues[q]) >= 1
    /\ LET j == qmeta[q].job
           last == queues[q][Len(queues[q])]
       IN  /\ task[j].pc = "done"
           /\ (task[j].exc = NoExc /\ qmeta[q].unsubAt = -1) =>
                 /\ last.state = "DONE"
                 /\ heap[last.progress].done = heap[last.progress].total
                 /\ \A i \in 1..(Len(queues[q]) - 1) : queues[q][i].state # "DONE"

FirstItemIsInitial(q) ==
    /\ ImmediateSubscriber(q)
    /\ Len(queues[q]) >= 1
    /\ queues[q][1].state = "BROWSER_STARTING"

\* C10: a snapshot queue subscribed right after create_job has the initial
\* state BROWSER_STARTING as its first item; the task eventually ends, and when
\* it succeeded the last item delivered is DONE with progress done = total.
C10_ImmediateSubscriberSeesInitialThenDone ==
    \A q \in 1..MaxQueues :
        [](ImmediateSubscriber(q) => (FirstItemIsInitial(q) /\ <>DoneIsLastItem(q)))

C10_Witness ==
    \E q \in 1..Len(queues) :
        /\ ImmediateSubscriber(q)
        /\ task[qmeta[q].job].pc = "done"
        /\ task[qmeta[q].job].exc = NoExc
        /\ qmeta[q].unsubAt = -1
        /\ queues[q][Len(queues[q])].state = "DONE"
        /\ heap[queues[q][Len(queues[q])].progress].total >= 1

\* the job's log still holds every entry ever appended to it
NothingEvicted(job_id) == Len(Get(event_logs, job_id, <<>>)) = Len(AllEntries(job_id))

\* C11: when a job's task has finished and its log has evicted nothing, the
\* first log entry's snapshot is BROWSER_STARTING and the last one's state is
\* DONE or FAILED.
C11_LogStartsInitialEndsTerminal ==
    \A j \in DOMAIN task :
        (task[j].pc = "done" /\ NothingEvicted(j)) =>
            /\ Len(event_logs[j]) >= 1
            /\ event_logs[j][1].snapshot.state = "BROWSER_STARTING"
            /\ event_logs[j][Len(event_logs[j])].snapshot.state \in Terminal

\* the entry passes the filters of the get_events call held in ret
WantedByCall(entry) ==
    /\ ret.since = <<>> \/ ParseTimestamp(entry.timestamp) >= ret.since[1]
    /\ ret.min_sequence = <<>> \/ entry.sequence > ret.min_sequence[1]

\* the call in ret passes as min_sequence the largest sequence the get_events
\* call before it returned, for the same job
PollsFromLastSeen ==
    /\ ret.op = "get_events"
    /\ ret.raised = ""
    /\ ret.prev # <<>>
    /\ ret.prev[1].job_id = ret.job_id
    /\ ret.prev[1].largest # <<>>
    /\ ret.min_sequence = ret.prev[1].largest
    /\ ret.since = <<>>

\* C12: get_events returns, oldest first, exactly the retained entries with
\* timestamp >= since (when given) and sequence > min_sequence (when given),
\* the whole retained log when both are absent; called with the largest
\* sequence returned by the call before, it returns exactly the retained
\* entries appended since, none when nothing was appended.
C12_GetEventsFilters ==
    (ret.op = "get_events" /\ ret.raised = "") =>
        /\ \A i \in 1..Len(ret.value) :
              /\ WantedByCall(ret.value[i])
              /\ \E k \in 1..Len(ret.log) : ret.log[k] = ret.value[i]
        /\ \A k \in 1..Len(ret.log) :
              WantedByCall(ret.log[k]) => \E i \in 1..Len(ret.value) : ret.value[i] = ret.log[k]
        /\ \A i \in 1..(Len(ret.value) - 1) :
              ret.value[i].sequence < ret.value[i + 1].sequence
        /\ (ret.since = <<>> /\ ret.min_sequence = <<>>) => ret.value = ret.log
        /\ PollsFromLastSeen =>
              ret.value = LastN(SubSeq(AllEntries(ret.job_id), ret.prev[1].at + 1, ret.at),
                                EVENT_HISTORY_LIMIT)

\* a poll from the last seen sequence that returns new entries and not the
\* whole log
C12_Witness ==
    /\ PollsFromLastSeen
    /\ ret.at > ret.prev[1].at
    /\ ret.value # <<>>
    /\ Len(ret.value) < Len(ret.log)

\* a snapshot dict with the objects it refers to read out
Deep(payload) ==
    [payload EXCEPT !.progress = heap[@],
                    !.manifest = heap[@],
                    !.artifacts = IF @ = Absent THEN <<>> ELSE <<heap[@]>>]

\* what get_snapshot would return now, and the snapshots held in the event
\* log and on the subscriber queues, read in full
RegistryView ==
    [current |-> [j \in DOMAIN snapshots |-> Deep(snapshots[j])],
     logged |-> [j \in DOMAIN event_logs |->
                   [i \in 1..Len(event_logs[j]) |-> Deep(event_logs[j][i].snapshot)]],
     queued |-> [q \in 1..Len(queues) |->
                   [i \in 1..Len(queues[q]) |-> Deep(QueuedPayloads(q)[i])]]]

\* the step is a write of the caller into the snapshot it was returned
CallerWrites ==
    /\ ret.op \in {"create_job", "get_snapshot"}
    /\ ret.raised = ""
    /\ ret'.op = ret.op
    /\ ret'.raised = ""
    /\ ret'.writes = ret.writes + 1

\* C13: a write of the caller into a snapshot returned by get_snapshot or
\* create_job, nested progress, manifest and artifacts included, changes
\* neither what get_snapshot returns afterwards nor the snapshots in the event
\* log and on the subscriber queues.
C13_ReturnedSnapshotIsIndependent ==
    [][CallerWrites => RegistryView' = RegistryView]_vars

\* the registrations of a job: the entry dicts in its active cache that
\* register_webhook accepted
Registrations(job_id) ==
    {h \in 1..Len(hmeta) :
        hmeta[h].outcome # "raised" /\ InSeq(h, Get(webhooks, job_id, <<>>))}

\* the store holds a record with the durable id the entry dict carries
Persisted(h) ==
    /\ hookobjs[h].id # <<>>
    /\ \E i \in 1..Len(store.webhooks) : store.webhooks[i].id = hookobjs[h].id[1]

Pending(job_id, h) == InSeq(h, Get(pending_webhooks, job_id, <<>>))

\* C14: every accepted registration is in the store or in the pending buffer,
\* never in both and never in neither, whatever store call failed.
C14_PersistedXorPending ==
    \A j \in DOMAIN webhooks :
        \A h \in Registrations(j) : Persisted(h) # Pending(j, h)

\* the job's task has finished and the run got past the pending flush: the
\* snapshot reached DONE or FAILED
RanToCompletion(job_id) ==
    /\ job_id \in DOMAIN task
    /\ task[job_id].pc = "done"
    /\ SnapshotPayload(World, job_id).state \in Terminal

\* the store's webhook records of a job
StoreRecords(job_id) ==
    {i \in 1..Len(store.webhooks) : store.webhooks[i].job_id = job_id}

\* C15: a webhook registered before the run record was allocated has, once
\* the job has run to completion, exactly one record in the store, carries
\* that record's durable id in the cache, and the pending buffer is empty.
C15_PendingRegistrationIsFlushedOnce ==
    \A j \in DOMAIN webhooks :
        RanToCompletion(j) =>
            /\ Get(pending_webhooks, j, <<>>) = <<>>
            /\ \A h \in Registrations(j) :
                  hmeta[h].outcome = "pending" =>
                      /\ hookobjs[h].id # <<>>
                      /\ Cardinality({i \in StoreRecords(j) :
                                         store.webhooks[i].id = hookobjs[h].id[1]}) = 1
                      /\ \A i \in StoreRecords(j) :
                            store.webhooks[i].id = hookobjs[h].id[1] =>
                                /\ store.webhooks[i].url = hookobjs[h].url
                                /\ store.webhooks[i].events = hookobjs[h].events
                      /\ \A g \in Registrations(j) :
                            g # h => hookobjs[g].id # hookobjs[h].id
            /\ Cardinality(StoreRecords(j)) = Cardinality(Registrations(j))

C15_Witness ==
    \E j \in DOMAIN webhooks :
        /\ RanToCompletion(j)
        /\ SnapshotPayload(World, j).state = "DONE"
        /\ \E h \in Registrations(j) : hmeta[h].outcome = "pending" /\ Persisted(h)

\* the trigger set a hook was registered with: the states passed as `events`,
\* DONE and FAILED when none were
TriggerSet(h) ==
    IF hmeta[h].events = <<>> THEN Terminal
    ELSE {hmeta[h].events[i] : i \in 1..Len(hmeta[h].events)}

\* the sender tasks this step created
NewTasks == (Len(sent) + 1)..Len(sent')

\* For each broadcast the step makes for a job and each hook in the job's
\* list, one sender task is created when the hook's trigger set contains the
\* broadcast state and none otherwise; every task created is for such a
\* broadcast and hook, carries the hook's url and the broadcast's payload, and
\* is left scheduled, not run, by the broadcaster.
BroadcastsScheduleSenders ==
    /\ \A j \in DOMAIN appended' :
          \A k \in (Len(Get(appended, j, <<>>)) + 1)..Len(appended'[j]) :
             \A p \in 1..Len(Get(webhooks, j, <<>>)) :
                LET h == webhooks[j][p]
                    entry == appended'[j][k]
                    tasks_made == {i \in NewTasks :
                                     /\ sent'[i].payload.job_id = j
                                     /\ sent'[i].broadcast = entry.sequence
                                     /\ sent'[i].hook = h}
                IN  Cardinality(tasks_made) =
                       IF entry.snapshot.state \in TriggerSet(h) THEN 1 ELSE 0
    /\ \A i \in NewTasks :
          LET job_id == sent'[i].payload.job_id
              hook == sent'[i].hook
          IN  /\ InSeq(hook, Get(webhooks, job_id, <<>>))
              /\ sent'[i].broadcast \in
                    Len(Get(appended, job_id, <<>>))..(Len(appended'[job_id]) - 1)
              /\ sent'[i].url = hookobjs[hook].url
              /\ sent'[i].payload.snapshot =
                    appended'[job_id][sent'[i].broadcast + 1].snapshot
              /\ sent'[i].payload.state = sent'[i].payload.snapshot.state
              /\ sent'[i].payload.state \in TriggerSet(hook)
              /\ sent'[i].status = "scheduled"

\* C16: on every broadcast of a job with state S the sender is scheduled
\* exactly once for each hook in the job's list whose trigger set contains S
\* and for no other hook, and the broadcaster does not wait for it; a hook
\* registered without events has the trigger set {DONE, FAILED}.
C16_SenderScheduledOncePerMatchingHook == [][BroadcastsScheduleSenders]_vars

\* a hook registered without events got a task for a terminal broadcast and
\* none for an earlier broadcast made after it was registered
C16_Witness ==
    \E i \in 1..Len(sent) :
        LET h == sent[i].hook
            j == sent[i].payload.job_id
        IN  /\ hmeta[h].events = <<>>
            /\ sent[i].payload.state \in Terminal
            /\ \E k \in (hmeta[h].regAt + 1)..Len(AllEntries(j)) :
                  /\ AllEntries(j)[k].snapshot.state \notin Terminal
                  /\ \A m \in 1..Len(sent) :
                        sent[m].hook = h => sent[m].broadcast # AllEntries(j)[k].sequence

\* the sender tasks created for a hook with a payload in the given state
Notifications(h, state) ==
    {i \in 1..Len(sent) : sent[i].hook = h /\ sent[i].payload.state = state}

\* C17: for each hook and each state the job enters the sender is invoked at
\* most once; once the task has finished in FAILED (DONE), a hook registered
\* before the task started whose trigger set contains FAILED (DONE) has got
\* exactly one notification for it.
C17_OneNotificationPerStateEntered ==
    \A h \in 1..Len(hmeta) :
        /\ \A state \in StateValues : Cardinality(Notifications(h, state)) <= 1
        /\ \A state \in Terminal :
              (/\ RanToCompletion(hmeta[h].job)
               /\ hmeta[h].regAt <= 1
               /\ SnapshotPayload(World, hmeta[h].job).state = state
               /\ state \in TriggerSet(h))
                  => Cardinality(Notifications(h, state)) = 1

\* everything of the job: registry, log, queues, store, task
JobView ==
    <<snapshots, tasks, subscribers, event_logs, event_sequences,
      event_subscribers, webhooks, pending_webhooks, store, queues, hookobjs,
      task, heap, now, appended>>

\* the sender tasks without what became of them
TasksCreated == [i \in 1..Len(sent) |-> [sent[i] EXCEPT !.status = "scheduled"]]

\* the step is the end of a sender task
SenderEnded ==
    \E i \in 1..Len(sent) : i <= Len(sent') /\ sent'[i].status # sent[i].status

TaskDone(job_id) == job_id \in DOMAIN task /\ task[job_id].pc = "done"
TaskReturned(job_id) == TaskDone(job_id) /\ task[job_id].exc = NoExc
JobIsDone(job_id) ==
    job_id \in DOMAIN snapshots /\ SnapshotPayload(World, job_id).state = "DONE"

\* C18: a sender that returns, raises or never completes changes nothing of
\* the job: the end of a sender task leaves states, log, queues, store and
\* task as they are, and the task of every job finishes, with the outcome the
\* runner and the store give it, whatever sender tasks are still unfinished.
C18_SenderHasNoEffectOnJob ==
    /\ [][SenderEnded => (JobView' = JobView /\ TasksCreated' = TasksCreated)]_vars
    /\ \A j \in JobIds : [](j \in DOMAIN task => <>TaskDone(j))
    /\ \A j \in JobIds : [](TaskReturned(j) => JobIsDone(j))

\* the job is DONE and its task returned while one sender task has raised and
\* another was never run
C18_Witness ==
    \E j \in DOMAIN task :
        /\ task[j].pc = "done"
        /\ task[j].exc = NoExc
        /\ SnapshotPayload(World, j).state = "DONE"
        /\ \E i \in 1..Len(sent) : sent[i].status = "raised" /\ sent[i].payload.job_id = j
        /\ \E i \in 1..Len(sent) : sent[i].status = "scheduled" /\ sent[i].payload.job_id = j

\* a delete_webhook call has returned, and ret holds it
DeleteHasReturned == ret.op = "delete_webhook" /\ ret.raised = ""

\* the entry dict / the store record is named by the arguments of the call in
\* ret: it has the url, or the durable id
EntryNamed(entry) ==
    \/ ret.url # <<>> /\ entry.url = ret.url[1]
    \/ ret.webhook_id # <<>> /\ entry.id = ret.webhook_id

RecordNamed(record) ==
    /\ record.job_id = ret.job_id
    /\ \/ ret.url # <<>> /\ record.url = ret.url[1]
       \/ ret.webhook_id # <<>> /\ record.id = ret.webhook_id[1]

EntriesNotNamed(entries) ==
    SelectSeq(entries, LAMBDA h : ~EntryNamed(ret.before.hookobjs[h]))
RecordsNotNamed(records) == SelectSeq(records, LAMBDA record : ~RecordNamed(record))

\* the call in ret repeats the delete_webhook call before it, with no
\* register_webhook call in between
RepeatsLastDelete ==
    /\ DeleteHasReturned
    /\ ret.prev # <<>>
    /\ ret.prev[1].job_id = ret.job_id
    /\ ret.prev[1].url = ret.url
    /\ ret.prev[1].webhook_id = ret.webhook_id
    /\ ret.prev[1].registered = ret.registered

Removed(before, after) ==
    {before[i] : i \in 1..Len(before)} \ {after[i] : i \in 1..Len(after)}

\* the registrations the call in ret removed, each once: the entry dicts
\* removed from the active cache or the pending buffer, and the store records
\* removed whose id none of those entry dicts carries
RegistrationsRemoved ==
    LET entries == Removed(ret.before.webhooks, ret.after.webhooks)
                   \cup Removed(ret.before.pending, ret.after.pending)
        records == Removed(ret.before.store, ret.after.store)
    IN  {<<"entry", h>> : h \in entries}
        \cup {<<"record", record.id>> :
                 record \in {r \in records :
                                \A h \in entries : ret.before.hookobjs[h].id # <<r.id>>}}

SameButRet(W) == [W EXCEPT !.ret = ret] = World

\* the entries of a list that the arguments do not name
EntriesKept(entries, webhook_id, url) ==
    SelectSeq(entries, LAMBDA h : ~WebhookMatches(hookobjs[h], webhook_id, url))

\* C21: delete_webhook for a job unknown to the store and to the registry
\* raises KeyError and changes nothing; when the store does not know the run
\* but the job has a snapshot it does not fail and removes the matching
\* registrations from the active cache and the pending buffer only.
C21_DeleteUnknownRunOrJob ==
    /\ \A job_id \in JobIds : \A args \in DeleteArguments :
          ~StoreHasRun(store, job_id) =>
             LET W == DeleteWebhookEffect(World, job_id, args.webhook_id, args.url, FALSE)
             IN  IF job_id \notin DOMAIN snapshots
                 THEN /\ W.ret.op = "delete_webhook"
                      /\ W.ret.raised = "KeyError"
                      /\ SameButRet(W)
                 ELSE /\ W.ret.op = "delete_webhook"
                      /\ W.ret.raised = ""
                      /\ [W EXCEPT !.webhooks = webhooks,
                                   !.pending_webhooks = pending_webhooks,
                                   !.ret = ret] = World
                      /\ Get(W.webhooks, job_id, <<>>) =
                            EntriesKept(Get(webhooks, job_id, <<>>), args.webhook_id, args.url)
                      /\ Get(W.pending_webhooks, job_id, <<>>) =
                            EntriesKept(Get(pending_webhooks, job_id, <<>>),
                                        args.webhook_id, args.url)
                      /\ \A j \in JobIds \ {job_id} :
                            /\ Get(W.webhooks, j, <<>>) = Get(webhooks, j, <<>>)
                            /\ Get(W.pending_webhooks, j, <<>>) = Get(pending_webhooks, j, <<>>)
    /\ (ret.op = "delete_webhook" /\ ret.raised = "KeyError") =>
          ret.job_id \notin DOMAIN snapshots
    /\ (DeleteHasReturned /\ ~ret.before.run) =>
          /\ ret.job_id \in DOMAIN snapshots
          /\ ret.after.store = ret.before.store

\* a pending registration removed by a delete while the store had no run,
\* another one kept
C21_Witness ==
    /\ DeleteHasReturned
    /\ ~ret.before.run
    /\ ret.value = 1
    /\ Len(ret.before.pending) = 2
    /\ Len(ret.after.pending) = 1
    /\ Len(ret.after.webhooks) = 1

\* some name of the list is not a JobState value
HasInvalidName(events) == \E i \in 1..Len(events) : events[i] \notin StateValues

\* C22: register_webhook with an events list in which some name is not a
\* JobState value raises ValueError and leaves the active cache, the pending
\* buffer and the store (and everything else) unchanged, also when other names
\* of the list are valid; no entry registered carries such a name.
C22_InvalidEventRejectsWholeCall ==
    /\ \A job_id \in DOMAIN snapshots : \A url \in HookUrls :
          \A events \in CallEventChoices : \A storeFails \in BOOLEAN :
             HasInvalidName(events) =>
                LET W == RegisterWebhookEffect(World, job_id, url, events, storeFails)
                IN  /\ W.ret.op = "register_webhook"
                    /\ W.ret.raised = "ValueError"
                    /\ SameButRet(W)
    /\ \A h \in 1..Len(hookobjs) : ~HasInvalidName(hookobjs[h].events)
    /\ \A i \in 1..Len(store.webhooks) : ~HasInvalidName(store.webhooks[i].events)

\* a call was rejected for its names while the job has a registration, which
\* it left in place
C22_Witness ==
    /\ ret.op = "register_webhook"
    /\ ret.raised = "ValueError"
    /\ Get(webhooks, ret.job_id, <<>>) # <<>>
    /\ store.webhooks # <<>>

\* the call raised KeyError and left everything else as it was
RaisedNotFound(W, op) ==
    /\ W.ret.op = op
    /\ W.ret.raised = "KeyError"
    /\ SameButRet(W)

\* the registry holds nothing under the job id
NothingUnder(job_id) ==
    /\ job_id \notin DOMAIN snapshots
    /\ job_id \notin DOMAIN tasks
    /\ job_id \notin DOMAIN subscribers
    /\ job_id \notin DOMAIN event_logs
    /\ job_id \notin DOMAIN event_sequences
    /\ job_id \notin DOMAIN event_subscribers
    /\ job_id \notin DOMAIN webhooks
    /\ job_id \notin DOMAIN pending_webhooks
    /\ \A q \in 1..Len(qmeta) : qmeta[q].job # job_id
    /\ \A h \in 1..Len(hmeta) : hmeta[h].job # job_id

\* C23: get_snapshot, subscribe, subscribe_events, get_events and
\* register_webhook, called with a job id that was never created, each raise
\* KeyError and leave the registry unchanged: no snapshot, subscriber list,
\* event log or webhook entry exists for that id.
C23_UnknownJobIsNotFound ==
    \A job_id \in JobIds \ DOMAIN snapshots :
        /\ RaisedNotFound(GetSnapshotEffect(World, job_id), "get_snapshot")
        /\ RaisedNotFound(SubscribeEffect(World, job_id), "subscribe")
        /\ RaisedNotFound(SubscribeEventsEffect(World, job_id, <<>>), "subscribe_events")
        /\ \A since \in Sinces : \A min_sequence \in MinSequences :
              RaisedNotFound(GetEventsEffect(World, job_id, since, min_sequence), "get_events")
        /\ \A url \in HookUrls : \A events \in CallEventChoices :
              RaisedNotFound(RegisterWebhookEffect(World, job_id, url, events, FALSE),
                             "register_webhook")
        /\ NothingUnder(job_id)

\* a call for the id that was never created raised while another job has a
\* subscriber, an event subscriber and a registration
C23_Witness ==
    /\ ret.op \in {"get_snapshot", "subscribe", "subscribe_events", "get_events",
                   "register_webhook"}
    /\ ret.raised = "KeyError"
    /\ ret.job_id = "unknown"
    /\ "unknown" \notin DOMAIN snapshots
    /\ \E j \in DOMAIN snapshots : j \in DOMAIN webhooks /\ j \in DOMAIN event_logs
    /\ Len(queues) >= 1

\* C24: when a job's task has finished, whatever step of it succeeded or
\* failed, the job id is no longer in the task map, while the job's snapshot,
\* its event log and its webhook entries are still there.
C24_FinishedTaskLeavesTaskMap ==
    \A j \in DOMAIN task :
        task[j].pc = "done" =>
            /\ j \notin DOMAIN tasks
            /\ j \in DOMAIN snapshots
            /\ j \in DOMAIN event_logs
            /\ event_logs[j] # <<>>
            /\ \A h \in 1..Len(hmeta) :
                  hmeta[h].job = j => InSeq(h, Get(webhooks, j, <<>>))

\* what subscribe(job_id) called now returns: a new queue, registered last in
\* the job's list, holding one item, the current snapshot
SubscribeSeedsCurrent(job_id) ==
    LET W == SubscribeEffect(World, job_id)
        queue == Len(queues) + 1
    IN  /\ Len(W.queues) = queue
        /\ W.queues[queue] = <<SnapshotPayload(World, job_id)>>
        /\ [W.queues[queue][1] EXCEPT !.state = JobState[@]] = snapshots[job_id]
        /\ W.subscribers[job_id] = Append(Get(subscribers, job_id, <<>>), queue)
        /\ W.snapshots = snapshots

\* what subscribe_events(job_id) called now returns: a new, empty queue
SubscribeEventsIsEmpty(job_id) ==
    \A since \in Sinces :
        LET W == SubscribeEventsEffect(World, job_id, since)
            queue == Len(queues) + 1
        IN  /\ Len(W.queues) = queue
            /\ W.queues[queue] = <<>>
            /\ W.event_subscribers[job_id] = Append(Get(event_subscribers, job_id, <<>>), queue)

\* what a queue holds after its seed was broadcast after the subscribe call:
\* its i-th item after the seed is the i-th broadcast made since
OnlyLaterBroadcasts(queue) ==
    LET all == AllEntries(qmeta[queue].job)
        at == qmeta[queue].subAt
    IN  IF qmeta[queue].kind = "snapshot"
        THEN /\ Len(queues[queue]) >= 1
             /\ at >= 1
             /\ queues[queue][1] = all[at].snapshot
             /\ \A i \in 2..Len(queues[queue]) :
                   /\ at + i - 1 <= Len(all)
                   /\ queues[queue][i] = all[at + i - 1].snapshot
        ELSE \A i \in 1..Len(queues[queue]) :
                /\ at + i <= Len(all)
                /\ queues[queue][i] = all[at + i]

\* C25: subscribe, for a job in any state, a terminal one included, returns a
\* queue holding exactly one item, the job's current snapshot, and nothing
\* broadcast before the call is delivered on it later; subscribe_events
\* returns an empty queue.
C25_SubscribeSeedsCurrentSnapshot ==
    /\ \A job_id \in DOMAIN snapshots :
          SubscribeSeedsCurrent(job_id) /\ SubscribeEventsIsEmpty(job_id)
    /\ \A queue \in 1..Len(queues) : OnlyLaterBroadcasts(queue)

\* a queue subscribed after the task had finished holds the terminal snapshot
\* and nothing else, beside a queue subscribed earlier that got the broadcasts
C25_Witness ==
    \E q1, q2 \in 1..Len(queues) :
        /\ qmeta[q1].kind = "snapshot"
        /\ qmeta[q1].taskpc = "done"
        /\ Len(queues[q1]) = 1
        /\ queues[q1][1].state \in Terminal
        /\ queues[q1][1] = SnapshotPayload(World, qmeta[q1].job)
        /\ qmeta[q2].kind = "snapshot"
        /\ qmeta[q2].job = qmeta[q1].job
        /\ Len(queues[q2]) >= 3

\* a sequence without the queue
Without(subs, queue) == SelectSeq(subs, LAMBDA q : q # queue)

\* `once` is the state after one call for (job_id, queue) in the state W and
\* `twice` the state after a second one; `field` names the registry of the
\* call: the second call changes nothing, a call for a queue that is not
\* registered under job_id changes nothing, and every other queue of every job
\* stays where it was
RemovesOnlyThatQueue(W, once, twice, field, job_id, queue) ==
    /\ twice = once
    /\ ~InSeq(queue, Get(W[field], job_id, <<>>)) => once = W
    /\ \A j \in JobIds :
          Get(once[field], j, <<>>) =
             IF j = job_id THEN Without(Get(W[field], j, <<>>), queue)
             ELSE Get(W[field], j, <<>>)
    /\ [once EXCEPT ![field] = W[field], !.qmeta = W.qmeta] = W

\* C26: unsubscribe and unsubscribe_events are idempotent: for a queue that
\* is not, or no longer, registered, or a job without subscribers, they do
\* nothing; two calls leave the state one call leaves; every other queue
\* subscribed to the job stays registered.
C26_UnsubscribeIsIdempotent ==
    \A job_id \in JobIds : \A queue \in 1..(Len(queues) + 1) :
        /\ LET once == UnsubscribeEffect(World, job_id, queue)
           IN  RemovesOnlyThatQueue(World, once, UnsubscribeEffect(once, job_id, queue),
                                    "subscribers", job_id, queue)
        /\ LET once == UnsubscribeEventsEffect(World, job_id, queue)
           IN  RemovesOnlyThatQueue(World, once, UnsubscribeEventsEffect(once, job_id, queue),
                                    "event_subscribers", job_id, queue)

\* of two snapshot queues of a job one was unsubscribed and the other is
\* still registered
C26_Witness ==
    \E q1, q2 \in 1..Len(queues) :
        /\ q1 # q2
        /\ qmeta[q1].job = qmeta[q2].job
        /\ qmeta[q1].kind = "snapshot"
        /\ qmeta[q2].kind = "snapshot"
        /\ qmeta[q1].unsubAt # -1
        /\ ~InSeq(q1, Get(subscribers, qmeta[q1].job, <<>>))
        /\ InSeq(q2, Get(subscribers, qmeta[q2].job, <<>>))

\* a snapshot queue that unsubscribe has removed
Unsubscribed(queue) == qmeta[queue].kind = "snapshot" /\ qmeta[queue].unsubAt # -1

\* the removed queue holds its seed and the broadcasts made up to the
\* unsubscribe call, nothing made later
NothingAfterUnsubscribe(queue) ==
    /\ Len(queues[queue]) = 1 + qmeta[queue].unsubAt - qmeta[queue].subAt
    /\ \A i \in 2..Len(queues[queue]) :
          queues[queue][i] = AllEntries(qmeta[queue].job)[qmeta[queue].subAt + i - 1].snapshot

\* the snapshot queues still subscribed to the job hold every broadcast made
\* since they were subscribed, those made after the unsubscribe call included
OthersGetLaterBroadcasts(queue) ==
    \A other \in 1..Len(queues) :
        (/\ qmeta[other].job = qmeta[queue].job
         /\ qmeta[other].kind = "snapshot"
         /\ qmeta[other].unsubAt = -1) =>
            /\ InSeq(other, Get(subscribers, qmeta[other].job, <<>>))
            /\ Len(queues[other]) = 1 + Len(AllEntries(qmeta[other].job)) - qmeta[other].subAt
            /\ \A i \in 2..Len(queues[other]) :
                  queues[other][i] =
                     AllEntries(qmeta[other].job)[qmeta[other].subAt + i - 1].snapshot

\* C27: after unsubscribe the removed queue gets no further item, and the
\* job's task is not cancelled: the task runs to its end, the job reaching
\* DONE or FAILED, and the queues still subscribed get every later broadcast.
C27_UnsubscribeDoesNotCancelJob ==
    \A queue \in 1..Len(queues) :
        Unsubscribed(queue) =>
            /\ NothingAfterUnsubscribe(queue)
            /\ OthersGetLaterBroadcasts(queue)
            /\ task[qmeta[queue].job].pc = "done" =>
                  SnapshotPayload(World, qmeta[queue].job).state \in Terminal

\* C28: when a job's task has finished, the status the store holds for the
\* run equals the state of the job's snapshot, both DONE or both FAILED,
\* whatever pipeline stage or store call failed during the run.
C28_StoreStatusEqualsSnapshotState ==
    \A j \in DOMAIN task :
        task[j].pc = "done" =>
            /\ StoreHasRun(store, j)
            /\ store.runs[j].status = SnapshotPayload(World, j).state
            /\ store.runs[j].status \in Terminal

\* the task got past run allocation and the first status update: the pending
\* flush, when there was one, has been made
PastAllocation(job_id) ==
    /\ task[job_id].pc # "scheduled"
    /\ StoreHasRun(store, job_id)
    /\ store.runs[job_id].status # None

\* C29: a failure to persist a pending webhook registration in the flush made
\* right after run allocation is not fatal to the job: the state still goes to
\* CAPTURING, the pipeline runs, and the job ends DONE or FAILED as it would
\* without the failure; the task never ends with the flush's error.
C29_FlushFailureIsNotFatal ==
    \A j \in DOMAIN task :
        /\ task[j].exc.id # "E_register_webhook"
        /\ PastAllocation(j) =>
              /\ Len(AllEntries(j)) >= 2
              /\ AllEntries(j)[2].snapshot.state = "CAPTURING"
              /\ task[j].pc = "done" => SnapshotPayload(World, j).state \in Terminal

\* C30: when the store's register_webhook raises an error other than
\* not-found, register_webhook fails with it and the registration is retained
\* nowhere: its entry is in neither the active cache nor the pending buffer,
\* and no broadcast creates a sender task for it.
C30_FailedRegistrationIsNotRetained ==
    \A h \in 1..Len(hmeta) :
        hmeta[h].outcome = "raised" =>
            /\ ~InSeq(h, Get(webhooks, hmeta[h].job, <<>>))
            /\ ~InSeq(h, Get(pending_webhooks, hmeta[h].job, <<>>))
            /\ \A i \in 1..Len(sent) : sent[i].hook # h

\* the last entry of the job's log carries the snapshot get_snapshot returns
\* now (JobState is a str enum: a state's value equals its member), with the
\* same progress, manifest and artifacts
LastEntryIsCurrent(job_id) ==
    LET log == Get(event_logs, job_id, <<>>)
        got == GetSnapshotEffect(World, job_id).ret
    IN  /\ log # <<>>
        /\ got.raised = ""
        /\ [log[Len(log)].snapshot EXCEPT !.state = JobState[@]] = got.value
        /\ Deep(log[Len(log)].snapshot) = Deep(SnapshotPayload(World, job_id))

\* C31: whenever another task or caller can observe the registry, the
\* snapshot in the last entry of a job's log equals the job's current
\* snapshot as get_snapshot returns it: every change of state, progress,
\* manifest path, manifest, artifacts or error is broadcast before control is
\* yielded.
C31_LastLogEntryIsCurrentSnapshot ==
    \A job_id \in DOMAIN snapshots : LastEntryIsCurrent(job_id)

\* a failed job whose log has evicted entries: its last entry carries the
\* error and the state FAILED the snapshot has
C31_Witness ==
    \E j \in DOMAIN task :
        /\ task[j].pc = "done"
        /\ snapshots[j].state = JobState.FAILED
        /\ HasError(snapshots[j])
        /\ Len(AllEntries(j)) > Len(event_logs[j])
        /\ event_logs[j][Len(event_logs[j])].snapshot.error = snapshots[j].error

\* The entry dict is in no job's active cache.  register_webhook puts an
\* entry dict there when it creates it, so one that is out was removed by
\* delete_webhook.
OutOfCache(h) == \A j \in DOMAIN webhooks : ~InSeq(h, webhooks[j])
OutOfPending(h) == \A j \in DOMAIN pending_webhooks : ~InSeq(h, pending_webhooks[j])

\* the store records this step wrote
NewRecords == {i \in 1..Len(store'.webhooks) : store'.webhooks[i].id >= store.next_id}

\* A step leaves a removed registration removed: it stays out of the active
\* cache and the pending buffer, no sender task is created for it, it gets no
\* durable id, and every record the step writes to the store belongs to an
\* entry dict that is in the active cache.
RemovedStaysRemoved ==
    /\ \A h \in 1..Len(hookobjs) :
          OutOfCache(h) =>
             /\ OutOfCache(h)'
             /\ OutOfPending(h)'
             /\ \A i \in NewTasks : sent'[i].hook # h
             /\ hookobjs'[h].id = hookobjs[h].id
    /\ \A h \in (Len(hookobjs) + 1)..Len(hookobjs') : ~OutOfCache(h)'
    /\ \A i \in NewRecords :
          \E h \in 1..Len(hookobjs') :
             /\ ~OutOfCache(h)'
             /\ hookobjs'[h].id = <<store'.webhooks[i].id>>

\* what a delete_webhook call removed is out of the cache and the buffer
DeleteTakesOut ==
    DeleteHasReturned =>
        \A h \in Removed(ret.before.webhooks, ret.after.webhooks)
                    \cup Removed(ret.before.pending, ret.after.pending) :
            OutOfCache(h) /\ OutOfPending(h)

\* C32: after delete_webhook has removed a registration no later broadcast
\* schedules a delivery for it, and a registration deleted while it was
\* pending is never written to the store by the later pending flush.
C32_DeletedRegistrationStaysDeleted == [][RemovedStaysRemoved]_vars /\ []DeleteTakesOut

\* a registration was deleted while it was pending; the run was allocated
\* and the job went to DONE, a state of the registration's trigger set: the
\* store holds no record, the entry has no durable id and no sender task
C32_Witness ==
    /\ DeleteHasReturned
    /\ \E h \in Removed(ret.before.pending, ret.after.pending) :
          /\ OutOfCache(h)
          /\ hookobjs[h].id = <<>>
          /\ "DONE" \in TriggerSet(h)
          /\ \A i \in 1..Len(sent) : sent[i].hook # h
          /\ RanToCompletion(hmeta[h].job)
          /\ SnapshotPayload(World, hmeta[h].job).state = "DONE"
          /\ StoreHasRun(store, hmeta[h].job)
    /\ store.webhooks = <<>>

\* a snapshot dict, a log entry and a queue item read in full on a heap
DeepIn(hp, payload) ==
    [payload EXCEPT !.progress = hp[@],
                    !.manifest = hp[@],
                    !.artifacts = IF @ = Absent THEN <<>> ELSE <<hp[@]>>]
EntryIn(hp, entry) == [entry EXCEPT !.snapshot = DeepIn(hp, @)]
ItemIn(hp, queue, item) ==
    IF qmeta[queue].kind = "snapshot" THEN DeepIn(hp, item) ELSE EntryIn(hp, item)

\* a step leaves every entry of every log as it was, or evicts it: the
\* entries that stay are the newest ones, unchanged and in place before the
\* entries the step appended
LogKeepsContent ==
    \A j \in DOMAIN event_logs :
        /\ j \in DOMAIN event_logs'
        /\ \E evicted \in 0..Len(event_logs[j]) :
              /\ Len(event_logs'[j]) >= Len(event_logs[j]) - evicted
              /\ \A i \in (evicted + 1)..Len(event_logs[j]) :
                    EntryIn(heap', event_logs'[j][i - evicted]) =
                       EntryIn(heap, event_logs[j][i])
              /\ evicted > 0 => Len(event_logs'[j]) = EVENT_HISTORY_LIMIT

\* a step leaves every item of every queue as it was
QueuesKeepContent ==
    \A q \in 1..Len(queues) :
        /\ Len(queues'[q]) >= Len(queues[q])
        /\ \A i \in 1..Len(queues[q]) :
              ItemIn(heap', q, queues'[q][i]) = ItemIn(heap, q, queues[q][i])

\* C33: an entry of the event log, once appended, keeps its sequence, its
\* timestamp and its snapshot (state, progress, error, manifest), and an item
\* put on a subscriber queue keeps its content, whatever the runner writes
\* into the job's snapshot afterwards.
C33_LogAndQueueContentIsFrozen == [][LogKeepsContent /\ QueuesKeepContent]_vars

\* the job is DONE with progress 1 of 1 while the first item of a queue still
\* shows BROWSER_STARTING with progress 0 of 0 and the log has evicted entries
C33_Witness ==
    \E q \in 1..Len(queues) :
        LET j == qmeta[q].job
        IN  /\ qmeta[q].kind = "snapshot"
            /\ queues[q][1].state = "BROWSER_STARTING"
            /\ heap[queues[q][1].progress] = [done |-> 0, total |-> 0]
            /\ snapshots[j].state = JobState.DONE
            /\ heap[snapshots[j].progress] = [done |-> 1, total |-> 1]
            /\ Len(AllEntries(j)) > Len(event_logs[j])
            /\ heap[event_logs[j][1].snapshot.progress] = [done |-> 0, total |-> 0]

\* the queues created for a job, the entry dicts registered for it, and the
\* nested objects its snapshot, its log entries and its queue items refer to
QueuesOf(W, job_id) == {q \in 1..Len(W.queues) : W.qmeta[q].job = job_id}
HooksOf(W, job_id) == {h \in 1..Len(W.hookobjs) : W.hmeta[h].job = job_id}
RefsIn(payload) == {payload.progress, payload.manifest, payload.artifacts} \ {Absent}
ObjectsOf(W, job_id) ==
    LET Items(q) == {IF W.qmeta[q].kind = "snapshot" THEN W.queues[q][k]
                     ELSE W.queues[q][k].snapshot : k \in 1..Len(W.queues[q])}
        payloads ==
            (IF job_id \in DOMAIN W.snapshots THEN {W.snapshots[job_id]} ELSE {})
            \cup {W.event_logs[job_id][i].snapshot :
                     i \in 1..Len(Get(W.event_logs, job_id, <<>>))}
            \cup UNION {Items(q) : q \in QueuesOf(W, job_id)}
    IN  UNION {RefsIn(payload) : payload \in payloads}

\* what a dict holds under a key, or nothing
Under(d, k) == IF k \in DOMAIN d THEN <<d[k]>> ELSE <<>>

\* W holds for job_id exactly what the current state holds for it: snapshot,
\* log, sequence counter, subscriber sets, queues with their items, webhook
\* caches with their entries, the sender tasks, and the nested objects all of
\* these refer to
Untouched(W, job_id) ==
    /\ Under(W.snapshots, job_id) = Under(snapshots, job_id)
    /\ Under(W.event_logs, job_id) = Under(event_logs, job_id)
    /\ Under(W.event_sequences, job_id) = Under(event_sequences, job_id)
    /\ Under(W.subscribers, job_id) = Under(subscribers, job_id)
    /\ Under(W.event_subscribers, job_id) = Under(event_subscribers, job_id)
    /\ Under(W.webhooks, job_id) = Under(webhooks, job_id)
    /\ Under(W.pending_webhooks, job_id) = Under(pending_webhooks, job_id)
    /\ \A q \in QueuesOf(World, job_id) : W.queues[q] = queues[q]
    /\ \A h \in HooksOf(World, job_id) : W.hookobjs[h] = hookobjs[h]
    /\ \A r \in ObjectsOf(World, job_id) : W.heap[r] = heap[r]
    /\ SelectSeq(W.sent, LAMBDA sender : W.hmeta[sender.hook].job = job_id) =
          SelectSeq(sent, LAMBDA sender : hmeta[sender.hook].job = job_id)

\* every operation on job a, with every argument, leaves job b's part as it is
RunnerStepsLeave(a, b) ==
    /\ (a \in DOMAIN task /\ task[a].pc = "scheduled") =>
          \A fail \in StartFailures :
             \A failAt \in (1..Len(Get(pending_webhooks, a, <<>>))) \cup {1} :
                Untouched(RunJobStartEffect(World, a, fail, failAt), b)
    /\ (a \in DOMAIN task /\ task[a].pc = "awaiting") =>
          \A res \in RunnerResults :
             \A plan \in ResumePlans :
                PlanUsed(res, plan) =>
                   Untouched(RunJobResumeEffect(World, a, res, plan), b)
    /\ a \in DOMAIN snapshots => Untouched(Broadcast(World, a), b)

SubscriberCallsLeave(a, b) ==
    /\ Untouched(SubscribeEffect(World, a), b)
    /\ Untouched(SubscribeEventsEffect(World, a, <<>>), b)
    /\ \A queue \in 1..Len(queues) :
          /\ Untouched(UnsubscribeEffect(World, a, queue), b)
          /\ Untouched(UnsubscribeEventsEffect(World, a, queue), b)

WebhookCallsLeave(a, b) ==
    /\ \A url \in HookUrls :
          \A events \in EventChoices :
             \A storeFails \in BOOLEAN :
                Untouched(RegisterWebhookEffect(World, a, url, events, storeFails), b)
    /\ \A args \in LateDeleteArguments :
          \A storeFails \in BOOLEAN :
             Untouched(DeleteWebhookEffect(World, a, args.webhook_id, args.url,
                                           storeFails), b)

\* every item on a queue and every payload of a sender task is a snapshot of
\* the job the queue was subscribed to, the webhook registered for
OnlyOwnSnapshots ==
    /\ \A q \in 1..Len(queues) :
          \A k \in 1..Len(queues[q]) :
             IF qmeta[q].kind = "snapshot"
             THEN queues[q][k].id = qmeta[q].job
             ELSE queues[q][k].snapshot.id = qmeta[q].job
    /\ \A i \in 1..Len(sent) :
          /\ sent[i].payload.job_id = hmeta[sent[i].hook].job
          /\ sent[i].payload.snapshot.id = hmeta[sent[i].hook].job

\* C34: an operation on one job (a runner step, a broadcast, subscribe,
\* unsubscribe, register_webhook, delete_webhook) leaves the other job's
\* snapshot, event log, sequence counter, subscriber sets and webhook caches
\* unchanged, and no queue or webhook of a job receives a snapshot of the
\* other job, in every interleaving of the two jobs' tasks.
C34_JobsAreIsolated ==
    /\ OnlyOwnSnapshots
    /\ \A a \in PairIds :
          \A b \in PairIds \ {a} :
             /\ RunnerStepsLeave(a, b)
             /\ SubscriberCallsLeave(a, b)
             /\ WebhookCallsLeave(a, b)

\* both jobs ran to their end, one to DONE and one to FAILED with its own
\* error, and a queue subscribed to the second job holds its snapshots only
C34_Witness ==
    /\ PairIds \subseteq DOMAIN snapshots
    /\ snapshots["j1"].state = JobState.DONE
    /\ snapshots["j2"].state = JobState.FAILED
    /\ snapshots["j1"].error = None
    /\ snapshots["j2"].error = "ocr failed"
    /\ \E q \in 1..Len(queues) :
          /\ qmeta[q].job = "j2"
          /\ qmeta[q].kind = "snapshot"
          /\ Len(queues[q]) > 2
    /\ \E h \in 1..Len(hookobjs) : hmeta[h].job = "j1" /\ InSeq(h, Get(webhooks, "j1", <<>>))

\* the calls a run makes when none of them raises, and the ones among them
\* that the input lets raise
LinkSteps == {"extract_links_from_dom", "write_links"}
CallsOf(inp) ==
    {"capture_tiles", "append_warning_log", "write_tiles", "write_manifest"}
    \cup (IF inp.tiles > 0 THEN {"submit_tiles", "stitch_markdown"} ELSE {})
    \cup (IF inp.dom_snapshot THEN {"write_dom_snapshot"} ELSE {})
    \cup (IF inp.dom_snapshot /\ inp.write_links THEN LinkSteps ELSE {})
    \cup (IF inp.markdown THEN {"write_markdown"} ELSE {})
FailingCalls(inp) == CallsOf(inp) \cap inp.raises
StoreWorks(plan) == \A k \in DOMAIN plan : plan[k] = "ok"
EndsWith(writes, tail) ==
    /\ Len(writes) >= Len(tail)
    /\ SubSeq(writes, Len(writes) - Len(tail) + 1, Len(writes)) = tail

\* C35: in execute_capture_job what link extraction or link persistence raises
\* is swallowed: tiles, manifest and (non-empty) markdown are written after it,
\* the call returns and, the store calls of _run_job working, the job ends
\* DONE; what any other call raises (capture, OCR, stitching, warning log, DOM
\* snapshot, tiles, manifest, markdown) is raised by the call and the job ends
\* FAILED.
C35_OnlyLinkFailuresAreSwallowed ==
    ret.op = "execute_capture_job" =>
       LET inp == ret.input
           out == ret.output
           job_id == ret.job_id
       IN  /\ FailingCalls(inp) \subseteq LinkSteps =>
                /\ out.ok
                /\ EndsWith(out.writes,
                            <<"tiles", "manifest">>
                            \o (IF inp.markdown THEN <<"markdown">> ELSE <<>>))
                /\ StoreWorks(ret.plan) =>
                      /\ snapshots[job_id].state = JobState.DONE
                      /\ task[job_id].exc = NoExc
           /\ FailingCalls(inp) \ LinkSteps # {} =>
                /\ ~out.ok
                /\ out.exc.id \in FailingCalls(inp) \ LinkSteps
                /\ task[job_id].runner = out.exc
                /\ snapshots[job_id].state = JobState.FAILED

\* link persistence raised, the three artifacts were written after it and the
\* job is DONE
C35_Witness ==
    /\ ret.op = "execute_capture_job"
    /\ ret.output.warning = Exc("write_links", "failed")
    /\ ret.output.writes = <<"dom_snapshot", "tiles", "manifest", "markdown">>
    /\ snapshots[ret.job_id].state = JobState.DONE

InFlight == {i \in 1..Len(ocr.status) : ocr.status[i] = "inflight"}
Failed == {i \in 1..Len(ocr.status) : ocr.status[i] = "failed"}

RaisedWhileInFlight ==
    /\ ocr.pc = "raised"
    /\ InFlight # {}
    /\ \E i \in 1..Len(ocr.status) : ocr.status[i] = "done"

\* C37: during submit_tiles the number of OCR requests in flight at the same
\* time never exceeds the configured max_concurrency.
C37_InFlightWithinMaxConcurrency ==
    ocr.pc # "idle" => Cardinality(InFlight) <= ocr.max_concurrency

\* what the code bounds the requests in flight by
InFlightWithinSemaphoreLimit ==
    ocr.pc # "idle" =>
       Cardinality(InFlight) <= SemaphoreLimit(ocr.max_concurrency, ocr.min_concurrency)

\* the queue is in the fan-out list of its job
Registered(queue) ==
    LET job_id == streams[queue].job_id
    IN  \/ InSeq(queue, Get(subscribers, job_id, <<>>))
        \/ InSeq(queue, Get(event_subscribers, job_id, <<>>))

\* the stream's generator has no step left to take
Over(queue) == streams[queue].pc \in {"closed", "dropped"}

\* C38: a queue that job_stream or job_events registered is removed with
\* unsubscribe / unsubscribe_events once the client has disconnected: no
\* stream whose client is gone and whose generator has no step left to take
\* has its queue in the fan-out list.
C38_DisconnectedStreamIsUnsubscribed ==
    \A queue \in DOMAIN streams :
       (streams[queue].disconnected /\ Over(queue)) => ~Registered(queue)

\* the part that holds: a generator that started unsubscribes when it ends
StartedStreamIsUnsubscribed ==
    \A queue \in DOMAIN streams : streams[queue].pc = "closed" => ~Registered(queue)

\* a dropped stream's queue is registered and has taken a broadcast made
\* after the client went away
DroppedQueueAccumulates ==
    \E queue \in DOMAIN streams :
       /\ streams[queue].pc = "dropped"
       /\ Registered(queue)
       /\ snapshots[streams[queue].job_id].state = JobState.DONE
       /\ Len(queues[queue]) > 2

====
